---- MODULE Spec2Model ----
(***************************************************************************)
(* Workspace discovery and name resolution of the Notion assistant:        *)
(* NotionWorkspaceDiscovery (integrations/notion_discovery.py) and the     *)
(* construction of its facade NotionMCP (integrations/notion_mcp.py).      *)
(*                                                                         *)
(* Python strings are sequences of one-character strings, so that lower()  *)
(* and the `in` substring test are computed.  Every other Python value is  *)
(* a tagged record (Str, Obj, Arr, Null).  A dict is the sequence of its   *)
(* items in insertion order.                                               *)
(***************************************************************************)
EXTENDS Integers, Sequences, FiniteSets, TLC

VARIABLES
    api_key,          \* NotionMCP.api_key: TRUE when a key is available
    parent_page_id,   \* NotionWorkspaceDiscovery.parent_page_id
    cache,            \* NotionWorkspaceDiscovery._databases_cache
    disk,             \* content of data/databases_cache.json
    pc,               \* position of the running operation
    inCtor,           \* TRUE while NotionMCP.__init__ is on the call stack
    databases,        \* local `databases` of discover_all_databases
    stack,            \* activations of _get_child_databases, innermost last
    search,           \* locals of _search_all_databases
    fuel,             \* what the remote workspace can still return
    prev,             \* _databases_cache when the last operation began
    saved,            \* snapshot last written by _save_cache, while the file is that write
    log,              \* remote calls and strategy results of the last operation
    ret,              \* outcome of the step just taken
    reader            \* a second thread inside get_database_by_name or list_all_databases

vars == << api_key, parent_page_id, cache, disk, pc, inCtor, databases, stack,
           search, fuel, prev, saved, log, ret, reader >>

-----------------------------------------------------------------------------
(* Bounds of the model *)

\* blocks, search hits and further pages the remote workspace returns in one behaviour
Fuel == 2

-----------------------------------------------------------------------------
(* Python values *)

Str(s) == [t |-> "str", s |-> s]
Obj(m) == [t |-> "obj", m |-> m]
Arr(a) == [t |-> "arr", a |-> a]
Null == [t |-> "null"]
Num(n) == [t |-> "num", n |-> n]

\* str.lower() on the characters the model uses
LowerChar(c) ==
    CASE c = "A" -> "a"
      [] c = "B" -> "b"
      [] c = "U" -> "u"
      [] OTHER -> c

Lower(s) == [i \in 1..Len(s) |-> LowerChar(s[i])]

\* a in b, for two strings
Contains(a, b) ==
    \E i \in 0..(Len(b) - Len(a)) : SubSeq(b, i + 1, i + Len(a)) = a

-----------------------------------------------------------------------------
(* dict: the sequence of its items [k, v] in insertion order, keys distinct *)

EmptyDict == << >>

DictKeys(d) == [i \in 1..Len(d) |-> d[i].k]

DictHas(d, key) == \E i \in 1..Len(d) : d[i].k = key

DictGet(d, key) == d[CHOOSE i \in 1..Len(d) : d[i].k = key].v

\* d.setdefault(key, val): an existing key keeps its value
dict_setdefault(d, key, val) ==
    IF \E i \in 1..Len(d) : d[i].k = key THEN d
    ELSE Append(d, [k |-> key, v |-> val])

\* d[key] = val: an existing key keeps its position
DictSet(d, key, val) ==
    IF DictHas(d, key)
    THEN [i \in 1..Len(d) |-> IF d[i].k = key THEN [k |-> key, v |-> val] ELSE d[i]]
    ELSE Append(d, [k |-> key, v |-> val])

\* d.update(e)
RECURSIVE DictUpdate(_, _)
DictUpdate(d, e) ==
    IF e = << >> THEN d
    ELSE DictUpdate(DictSet(d, Head(e).k, Head(e).v), Tail(e))

-----------------------------------------------------------------------------
(* Strings and opaque remote values of the modelled workspace *)

tAb == << "A", "b" >>
tab == << "a", "b" >>
tb == << "b" >>
Untitled == << "U", "n", "t", "i", "t", "l", "e", "d" >>

D1 == Str(<< "d", "1" >>)
D2 == Str(<< "d", "2" >>)
P0 == Str(<< "p", "0" >>)
P1 == Str(<< "p", "1" >>)
EmptyStr == Str(<< >>)

\* a property schema as the remote returns it, and the default {} of .get("properties", {})
S1 == Obj(<< << << "N" >>, Str(<< "t" >>) >> >>)
EmptyObj == Obj(<< >>)

\* truth value of a Python value used as a condition: None, "", [], {}, 0 and
\* False are false
Truthy(v) ==
    CASE v.t = "null" -> FALSE
      [] v.t = "str" -> v.s # << >>
      [] v.t = "arr" -> v.a # << >>
      [] v.t = "obj" -> v.m # << >>
      [] v.t = "num" -> v.n # 0
      [] v.t = "bool" -> v.b
      [] OTHER -> TRUE

-----------------------------------------------------------------------------
(* DatabaseInfo and its JSON form *)

DatabaseInfo(id, title, properties, parent) ==
    [t |-> "DatabaseInfo", id |-> id, title |-> title,
     properties |-> properties, parent_page_id |-> parent]

K_id == << "i", "d" >>
K_title == << "t", "i", "t", "l", "e" >>
K_properties == << "p", "r", "o", "p", "e", "r", "t", "i", "e", "s" >>
K_parent_page_id == << "p", "a", "r", "e", "n", "t", "_", "p", "a", "g", "e", "_", "i", "d" >>
K_parentPageId == << "p", "a", "r", "e", "n", "t", "P", "a", "g", "e", "I", "d" >>

FieldNames == { K_id, K_title, K_properties, K_parent_page_id }

\* a dump naming the last field parentPageId
asdict_camel(db) ==
    Obj(<< << K_id, db.id >>, << K_title, db.title >>,
           << K_properties, db.properties >>, << K_parentPageId, db.parent_page_id >> >>)

\* dataclasses.asdict(db): the fields in declaration order
asdict(db) ==
    Obj(<< << K_id, db.id >>, << K_title, db.title >>,
           << K_properties, db.properties >>, << K_parent_page_id, db.parent_page_id >> >>)

\* json.load of a JSON object: a dict, a repeated member name keeping its first place
RECURSIVE ObjToDict(_, _)
ObjToDict(m, d) ==
    IF m = << >> THEN d
    ELSE ObjToDict(Tail(m), DictSet(d, Head(m)[1], Head(m)[2]))

\* DatabaseInfo(**data): a TypeError unless data is a mapping with exactly the four fields
CanConstruct(data) ==
    /\ data.t = "obj"
    /\ { data.m[i][1] : i \in 1..Len(data.m) } = FieldNames

FromDict(data) ==
    LET d == ObjToDict(data.m, EmptyDict)
    IN  DatabaseInfo(DictGet(d, K_id), DictGet(d, K_title),
                     DictGet(d, K_properties), DictGet(d, K_parent_page_id))

-----------------------------------------------------------------------------
(* The cache file *)

Missing == [kind |-> "missing"]
Garbage == [kind |-> "garbage"]
JsonFile(doc) == [kind |-> "json", doc |-> doc]

\* a dump keyed by the database id
cache_data_by_id(c) == Obj([i \in 1..Len(c) |-> << c[i].v.id.s, asdict(c[i].v) >>])

\* the document _save_cache dumps: {name: asdict(db)} in the order of the cache
CacheData(c) == Obj([i \in 1..Len(c) |-> << c[i].k, asdict(c[i].v) >>])

\* the dict comprehension of load_cache, one item at a time; "error" when an item raises
RECURSIVE BuildCache(_, _)
BuildCache(items, acc) ==
    IF items = << >> THEN [error |-> FALSE, cache |-> acc]
    ELSE IF ~CanConstruct(Head(items).v) THEN [error |-> TRUE, cache |-> acc]
    ELSE BuildCache(Tail(items), DictSet(acc, Head(items).k, FromDict(Head(items).v)))

\* a load that keeps the items built before the one that raised
load_cache_partial(file, c) ==
    IF file.kind = "missing" THEN [ok |-> FALSE, cache |-> c]
    ELSE IF file.kind = "garbage" THEN [ok |-> FALSE, cache |-> c]
    ELSE IF file.doc.t # "obj" THEN [ok |-> FALSE, cache |-> c]
    ELSE LET built == BuildCache(ObjToDict(file.doc.m, EmptyDict), EmptyDict)
         IN  [ok |-> ~built.error, cache |-> built.cache]

\* load_cache: the value returned and _databases_cache afterwards
load_cache(file, c) ==
    IF file.kind = "missing" THEN [ok |-> FALSE, cache |-> c]
    ELSE IF file.kind = "garbage" THEN [ok |-> FALSE, cache |-> c]
    ELSE IF file.doc.t # "obj" THEN [ok |-> FALSE, cache |-> c]
    ELSE LET built == BuildCache(ObjToDict(file.doc.m, EmptyDict), EmptyDict)
         IN  IF built.error THEN [ok |-> FALSE, cache |-> c]
             ELSE [ok |-> TRUE, cache |-> built.cache]

-----------------------------------------------------------------------------
(* Name resolution *)

\* index of the first item at or after i whose key equals name ignoring case, 0 if none
RECURSIVE ScanLowerEqual(_, _, _)
ScanLowerEqual(d, name, i) ==
    IF i > Len(d) THEN 0
    ELSE IF Lower(d[i].k) = Lower(name) THEN i
    ELSE ScanLowerEqual(d, name, i + 1)

\* index of the first item at or after i whose key contains name ignoring case, 0 if none
RECURSIVE ScanLowerContains(_, _, _)
ScanLowerContains(d, name, i) ==
    IF i > Len(d) THEN 0
    ELSE IF Contains(Lower(name), Lower(d[i].k)) THEN i
    ELSE ScanLowerContains(d, name, i + 1)

\* a lookup without the exact-key tier
get_database_by_name_no_exact(c, name) ==
    LET i == ScanLowerEqual(c, name, 1)
        j == ScanLowerContains(c, name, 1)
    IN  IF i > 0 THEN c[i].v
        ELSE IF j > 0 THEN c[j].v
        ELSE Null

\* get_database_by_name: exact key, then case-insensitive, then substring, else None
get_database_by_name(c, name) ==
    LET i == ScanLowerEqual(c, name, 1)
        j == ScanLowerContains(c, name, 1)
    IN  IF DictHas(c, name) THEN DictGet(c, name)
        ELSE IF i > 0 THEN c[i].v
        ELSE IF j > 0 THEN c[j].v
        ELSE Null

\* a listing built from the end of the dict
list_all_databases_reversed(c) == [i \in 1..Len(c) |-> c[Len(c) + 1 - i].k]

\* list_all_databases
list_all_databases(c) == DictKeys(c)

\* NotionMCP.get_database_id: db_info.id if db_info else None
get_database_id(c, name) ==
    LET db_info == get_database_by_name(c, name)
    IN  IF db_info.t = "null" THEN Null ELSE db_info.id

-----------------------------------------------------------------------------
(* Property payloads (integrations/notion_schemas.py)                      *)

Bool(b) == [t |-> "bool", b |-> b]

\* an exception leaving a function, in place of its value
Raised(exc) == [t |-> "raised", exc |-> exc]

K_type == << "t", "y", "p", "e" >>
K_rich_text == << "r", "i", "c", "h", "_", "t", "e", "x", "t" >>
K_number == << "n", "u", "m", "b", "e", "r" >>
K_select == << "s", "e", "l", "e", "c", "t" >>
K_multi_select == << "m", "u", "l", "t", "i", "_", "s", "e", "l", "e", "c", "t" >>
K_date == << "d", "a", "t", "e" >>
K_checkbox == << "c", "h", "e", "c", "k", "b", "o", "x" >>
K_url == << "u", "r", "l" >>
K_email == << "e", "m", "a", "i", "l" >>
K_status == << "s", "t", "a", "t", "u", "s" >>
K_formula == << "f", "o", "r", "m", "u", "l", "a" >>
K_relation == << "r", "e", "l", "a", "t", "i", "o", "n" >>
K_rollup == << "r", "o", "l", "l", "u", "p" >>
K_text == << "t", "e", "x", "t" >>
K_content == << "c", "o", "n", "t", "e", "n", "t" >>
K_plain_text == << "p", "l", "a", "i", "n", "_", "t", "e", "x", "t" >>
K_name == << "n", "a", "m", "e" >>
K_start == << "s", "t", "a", "r", "t" >>
K_end == << "e", "n", "d" >>
K_people == << "p", "e", "o", "p", "l", "e" >>
K_string == << "s", "t", "r", "i", "n", "g" >>

\* d.get(key, default) on a dict d
Get(d, key, default) ==
    IF \E j \in 1..Len(d.m) : d.m[j][1] = key
    THEN d.m[CHOOSE j \in 1..Len(d.m) : d.m[j][1] = key][2]
    ELSE default

\* v.get(key, default) on any value v: AttributeError unless v is a dict
GetOf(v, key, default) ==
    IF v.t = "obj" THEN Get(v, key, default) ELSE Raised("AttributeError")

\* the one-member dict {key: value}
One(key, value) == Obj(<< << key, value >> >>)

title_property(text) ==
    One(K_title, Arr(<< One(K_text, One(K_content, text)) >>))

rich_text_property(text) ==
    One(K_rich_text, Arr(<< One(K_text, One(K_content, text)) >>))

number_property(value) == One(K_number, value)

select_property(name) == One(K_select, One(K_name, name))

multi_select_property(names) ==
    One(K_multi_select, Arr([i \in 1..Len(names.a) |-> One(K_name, names.a[i])]))

date_property(start, end) ==
    One(K_date, IF Truthy(end)
                THEN Obj(<< << K_start, start >>, << K_end, end >> >>)
                ELSE One(K_start, start))

checkbox_property(checked) == One(K_checkbox, checked)

url_property(url) == One(K_url, url)

email_property(email) == One(K_email, email)

status_property(name) == One(K_status, One(K_name, name))

\* the decimal digits of a natural number
RECURSIVE DigitsOf(_)
DigitsOf(n) ==
    LET d == << "0", "1", "2", "3", "4", "5", "6", "7", "8", "9" >>[(n % 10) + 1]
    IN  IF n < 10 THEN << d >> ELSE Append(DigitsOf(n \div 10), d)

\* ", ".join(parts)
RECURSIVE Join(_)
Join(parts) ==
    IF parts = << >> THEN << >>
    ELSE IF Len(parts) = 1 THEN parts[1]
    ELSE parts[1] \o << ",", " " >> \o Join(Tail(parts))

\* repr(v) of strings without quotes or escapes, naturals, booleans, None, lists and dicts
RECURSIVE Repr(_)
Repr(v) ==
    CASE v.t = "str" -> << "'" >> \o v.s \o << "'" >>
      [] v.t = "num" -> DigitsOf(v.n)
      [] v.t = "bool" -> IF v.b THEN << "T", "r", "u", "e" >>
                         ELSE << "F", "a", "l", "s", "e" >>
      [] v.t = "null" -> << "N", "o", "n", "e" >>
      [] v.t = "arr" ->
            << "[" >> \o Join([i \in 1..Len(v.a) |-> Repr(v.a[i])]) \o << "]" >>
      [] v.t = "obj" ->
            << "{" >>
            \o Join([i \in 1..Len(v.m) |->
                        << "'" >> \o v.m[i][1] \o << "'", ":", " " >> \o Repr(v.m[i][2])])
            \o << "}" >>

\* title_arr[0].get("plain_text", "") if title_arr else "", for extract_title and
\* extract_rich_text
FirstPlainText(arr) ==
    IF ~Truthy(arr) THEN Str(<< >>)
    ELSE CASE arr.t = "arr" -> GetOf(arr.a[1], K_plain_text, Str(<< >>))
           [] arr.t = "str" -> Raised("AttributeError")
           [] arr.t = "obj" -> Raised("KeyError")
           [] OTHER -> Raised("TypeError")

extract_title(prop) == FirstPlainText(Get(prop, K_title, Arr(<< >>)))

extract_rich_text(prop) == FirstPlainText(Get(prop, K_rich_text, Arr(<< >>)))

\* [x.get(key, "") for x in arr]
Each(arr, key) ==
    CASE arr.t = "arr" ->
            IF \E i \in 1..Len(arr.a) : arr.a[i].t # "obj" THEN Raised("AttributeError")
            ELSE Arr([i \in 1..Len(arr.a) |-> Get(arr.a[i], key, Str(<< >>))])
      [] arr.t = "str" -> IF arr.s = << >> THEN Arr(<< >>) ELSE Raised("AttributeError")
      [] arr.t = "obj" -> IF arr.m = << >> THEN Arr(<< >>) ELSE Raised("AttributeError")
      [] OTHER -> Raised("TypeError")

\* x.get("name", "") if x else ""
NameOf(x) == IF Truthy(x) THEN GetOf(x, K_name, Str(<< >>)) ELSE Str(<< >>)

\* inner.get(inner.get("type", "")), for formula and rollup
Inner(inner) ==
    IF inner.t # "obj" THEN Raised("AttributeError")
    ELSE LET tag == Get(inner, K_type, Str(<< >>))
         IN  IF tag.t = "str" THEN Get(inner, tag.s, Null)
             ELSE IF tag.t \in { "arr", "obj" } THEN Raised("TypeError")
             ELSE Null

\* the dispatch of extract_property_value, with what its else branch returns
Dispatch(prop, fallback) ==
    LET prop_type == Get(prop, K_type, Str(<< >>))
    IN  IF prop_type = Str(K_title) THEN extract_title(prop)
        ELSE IF prop_type = Str(K_rich_text) THEN extract_rich_text(prop)
        ELSE IF prop_type = Str(K_number) THEN Get(prop, K_number, Null)
        ELSE IF prop_type = Str(K_select) THEN NameOf(Get(prop, K_select, Null))
        ELSE IF prop_type = Str(K_multi_select)
             THEN Each(Get(prop, K_multi_select, Arr(<< >>)), K_name)
        ELSE IF prop_type = Str(K_date)
             THEN LET date_obj == Get(prop, K_date, Null)
                  IN  IF Truthy(date_obj) THEN GetOf(date_obj, K_start, Str(<< >>))
                      ELSE Str(<< >>)
        ELSE IF prop_type = Str(K_checkbox) THEN Get(prop, K_checkbox, Bool(FALSE))
        ELSE IF prop_type = Str(K_url) THEN Get(prop, K_url, Str(<< >>))
        ELSE IF prop_type = Str(K_email) THEN Get(prop, K_email, Str(<< >>))
        ELSE IF prop_type = Str(K_status) THEN NameOf(Get(prop, K_status, Null))
        ELSE IF prop_type = Str(K_formula) THEN Inner(Get(prop, K_formula, Obj(<< >>)))
        ELSE IF prop_type = Str(K_relation)
             THEN Each(Get(prop, K_relation, Arr(<< >>)), K_id)
        ELSE IF prop_type = Str(K_rollup) THEN Inner(Get(prop, K_rollup, Obj(<< >>)))
        ELSE fallback

\* a decoder whose else branch returns ""
extract_property_value_blank(prop) == Dispatch(prop, Str(<< >>))

\* extract_property_value: the else branch returns str(prop)
extract_property_value(prop) == Dispatch(prop, Str(Repr(prop)))

-----------------------------------------------------------------------------
(* json.loads, on texts over the characters { } " : , the digits and the   *)
(* letters a and b (no white space, arrays, literals, signs or escapes)    *)

Digits == { "0", "1", "2", "3", "4", "5", "6", "7", "8", "9" }

DigitOf(c) ==
    CASE c = "0" -> 0 [] c = "1" -> 1 [] c = "2" -> 2 [] c = "3" -> 3 [] c = "4" -> 4
      [] c = "5" -> 5 [] c = "6" -> 6 [] c = "7" -> 7 [] c = "8" -> 8 [] c = "9" -> 9

ParseFail == [ok |-> FALSE]

Parsed(v, rest) == [ok |-> TRUE, v |-> v, rest |-> rest]

\* members[k] = v while an object is parsed: a repeated name keeps its place, the last value wins
ObjSet(m, k, v) ==
    IF \E i \in 1..Len(m) : m[i][1] = k
    THEN [i \in 1..Len(m) |-> IF m[i][1] = k THEN << k, v >> ELSE m[i]]
    ELSE Append(m, << k, v >>)

\* the characters of a string, after its opening quote
RECURSIVE parse_string(_, _)
parse_string(s, acc) ==
    IF s = << >> THEN ParseFail
    ELSE IF Head(s) = "\"" THEN Parsed(Str(acc), Tail(s))
    ELSE parse_string(Tail(s), Append(acc, Head(s)))

\* the digits of an integer after its first, which was not 0
RECURSIVE parse_digits(_, _)
parse_digits(s, n) ==
    IF s # << >> /\ Head(s) \in Digits
    THEN parse_digits(Tail(s), 10 * n + DigitOf(Head(s)))
    ELSE Parsed(Num(n), s)

RECURSIVE parse_value(_)
RECURSIVE parse_members(_, _)

\* the members of an object, from the quote of a member name on
parse_members(s, m) ==
    IF s = << >> \/ Head(s) # "\"" THEN ParseFail
    ELSE LET key == parse_string(Tail(s), << >>)
         IN  IF ~key.ok THEN ParseFail
             ELSE IF key.rest = << >> \/ Head(key.rest) # ":" THEN ParseFail
             ELSE LET val == parse_value(Tail(key.rest))
                  IN  IF ~val.ok THEN ParseFail
                      ELSE IF val.rest = << >> THEN ParseFail
                      ELSE IF Head(val.rest) = "}"
                           THEN Parsed(Obj(ObjSet(m, key.v.s, val.v)), Tail(val.rest))
                      ELSE IF Head(val.rest) = ","
                           THEN parse_members(Tail(val.rest), ObjSet(m, key.v.s, val.v))
                      ELSE ParseFail

parse_value(s) ==
    IF s = << >> THEN ParseFail
    ELSE IF Head(s) = "{"
         THEN IF Tail(s) # << >> /\ Head(Tail(s)) = "}"
              THEN Parsed(Obj(<< >>), Tail(Tail(s)))
              ELSE parse_members(Tail(s), << >>)
    ELSE IF Head(s) = "\"" THEN parse_string(Tail(s), << >>)
    ELSE IF Head(s) = "0" THEN Parsed(Num(0), Tail(s))
    ELSE IF Head(s) \in Digits THEN parse_digits(Tail(s), DigitOf(Head(s)))
    ELSE ParseFail

\* a parser that stops at the end of the first value
json_loads_lenient(s) ==
    LET r == parse_value(s)
    IN  IF r.ok THEN [ok |-> TRUE, v |-> r.v] ELSE [ok |-> FALSE, v |-> Null]

\* json.loads(s): ok is FALSE when it raises JSONDecodeError
json_loads(s) ==
    LET r == parse_value(s)
    IN  IF r.ok /\ r.rest = << >> THEN [ok |-> TRUE, v |-> r.v] ELSE [ok |-> FALSE, v |-> Null]

\* texts json.loads accepts
ValidTexts ==
    { << "{", "}" >>,
      << "{", "\"", "a", "\"", ":", "1", "}" >>,
      << "{", "\"", "a", "\"", ":", "\"", "b", "\"", "}" >>,
      << "1", "0" >> }

\* texts json.loads rejects with JSONDecodeError
MalformedTexts ==
    { << >>,
      << "{", "\"", "a", "\"", ":", "1" >>,
      << "{", "a", ":", "1", "}" >>,
      << "{", "\"", "a", "\"", ":", "1", "}", "}" >>,
      << "{", "\"", "a", "\"", ":", "1", ",", "}" >>,
      << "\"", "a" >>,
      << "0", "1" >> }

-----------------------------------------------------------------------------
(* The remote workspace: what the client's calls may answer *)

\* child blocks of a page (blocks.children.list results)
Blocks ==
    { [type |-> "child_database", id |-> D1],
      [type |-> "child_page", id |-> P1],
      [type |-> "paragraph", id |-> D2] }

\* database objects databases.retrieve may return
RetrieveAnswers ==
    { [title |-> << [plain_text |-> tAb] >>, properties |-> S1],
      [title |-> << [plain_text |-> tb] >>],
      [title |-> << >>, properties |-> S1] }

\* data-source objects the workspace search may return
SearchHits ==
    { [id |-> D1, title |-> << [plain_text |-> tab] >>, properties |-> S1,
       parent |-> [page_id |-> P0]],
      [id |-> D2, title |-> << [plain_text |-> tAb] >>, properties |-> S1,
       parent |-> [workspace |-> TRUE]],
      [id |-> D2, title |-> << >>],
      [id |-> D1, title |-> << [type |-> "text"] >>, properties |-> S1] }

Cursors == { Null, Str(<< "c" >>) }

\* sequences of at most n elements of S
RECURSIVE SeqsUpTo(_, _)
SeqsUpTo(S, n) ==
    IF n = 0 THEN { << >> }
    ELSE LET shorter == SeqsUpTo(S, n - 1)
         IN  shorter \cup { Append(q, x) : q \in { r \in shorter : Len(r) = n - 1 }, x \in S }

\* one page of a paginated answer, within what the workspace can still return
Pages(S, left) ==
    { [results |-> r, has_more |-> h, next_cursor |-> c] :
        r \in SeqsUpTo(S, left), h \in BOOLEAN, c \in Cursors }

PageCost(page) == Len(page.results) + (IF page.has_more THEN 1 ELSE 0)

-----------------------------------------------------------------------------
(* Discovery helpers *)

\* _extract_database_title with "" for an empty title array
extract_database_title_blank(database) ==
    LET title_prop == IF "title" \in DOMAIN database THEN database.title ELSE << >>
    IN  IF Len(title_prop) > 0
        THEN IF "plain_text" \in DOMAIN title_prop[1]
             THEN title_prop[1].plain_text
             ELSE Untitled
        ELSE << >>

\* _extract_database_title
extract_database_title(database) ==
    LET title_prop == IF "title" \in DOMAIN database THEN database.title ELSE << >>
    IN  IF Len(title_prop) > 0
        THEN IF "plain_text" \in DOMAIN title_prop[1]
             THEN title_prop[1].plain_text
             ELSE Untitled
        ELSE Untitled

\* db.get("properties", {})
PropertiesOf(db) == IF "properties" \in DOMAIN db THEN db.properties ELSE EmptyObj

\* db.get("parent", {}).get("page_id", "")
ParentOf(db) ==
    IF "parent" \in DOMAIN db /\ "page_id" \in DOMAIN db.parent
    THEN db.parent.page_id
    ELSE EmptyStr

\* a for loop that files each hit under its id
RECURSIVE record_hits_by_id(_, _)
record_hits_by_id(dbs, hits) ==
    IF hits = << >> THEN dbs
    ELSE LET db == Head(hits)
             title == extract_database_title(db)
         IN  record_hits_by_id(DictSet(dbs, db.id.s,
                                       DatabaseInfo(db.id, Str(title), PropertiesOf(db),
                                                    ParentOf(db))),
                               Tail(hits))

\* the body of the for loop of _search_all_databases, over one page of results
RECURSIVE RecordHits(_, _)
RecordHits(dbs, hits) ==
    IF hits = << >> THEN dbs
    ELSE LET db == Head(hits)
             title == extract_database_title(db)
         IN  RecordHits(DictSet(dbs, title,
                                DatabaseInfo(db.id, Str(title), PropertiesOf(db), ParentOf(db))),
                        Tail(hits))

-----------------------------------------------------------------------------
(* Files another process may leave at data/databases_cache.json *)

ValidEntry(id, title, parent) ==
    Obj(<< << K_id, id >>, << K_title, Str(title) >>,
           << K_properties, S1 >>, << K_parent_page_id, parent >> >>)

\* a cache of an earlier session
StaleFile ==
    JsonFile(Obj(<< << tab, ValidEntry(D1, tab, P0) >>,
                    << tAb, ValidEntry(D2, tAb, EmptyStr) >>,
                    << tb, ValidEntry(D2, tb, P1) >> >>))

\* a mapping whose second entry does not have the four fields
PartialFile ==
    JsonFile(Obj(<< << tAb, ValidEntry(D1, tAb, P0) >>,
                    << tab, Obj(<< << K_id, D2 >>, << K_title, Str(tab) >>,
                                   << K_properties, S1 >>, << K_parentPageId, P0 >> >>) >> >>))

ExternalFiles ==
    { Missing, Garbage, JsonFile(Arr(<< >>)), JsonFile(EmptyObj), StaleFile, PartialFile }

\* names callers ask get_database_by_name for
QueryNames ==
    { tAb, tab, tb, << "A", "B" >>, << "B" >>, << "a" >>, << "z" >>, << >> }

\* exceptions a remote call may raise
RemoteErrors == { "APIResponseError", "RequestTimeoutError" }

-----------------------------------------------------------------------------
(* Locals of the discovery functions *)

\* an activation of _get_child_databases(page_id) at its first while test
NewFrame(page_id) ==
    [page_id |-> page_id, databases |-> EmptyDict, has_more |-> TRUE,
     start_cursor |-> Null, blocks |-> << >>, next_more |-> FALSE,
     next_cursor |-> Null, raised |-> FALSE, calls |-> 0, mores |-> 0,
     seen |-> 0, done |-> 0]

\* a search whose loop is never entered
new_search_no_more ==
    [databases |-> EmptyDict, has_more |-> FALSE, start_cursor |-> Null,
     raised |-> FALSE, calls |-> 0, mores |-> 0, hits |-> << >>]

\* _search_all_databases at its first while test
NewSearch ==
    [databases |-> EmptyDict, has_more |-> TRUE, start_cursor |-> Null,
     raised |-> FALSE, calls |-> 0, mores |-> 0, hits |-> << >>]

NoLog == [remote |-> 0, raised |-> 0, runs |-> 0, loaded |-> FALSE,
          a |-> EmptyDict, b |-> EmptyDict, seen |-> << >>, failedAt |-> << >>]

\* where the title of a database object comes from: its title array is empty,
\* its first element has no plain_text, or the plain_text of its first element
TitleSource(database) ==
    LET title_prop == IF "title" \in DOMAIN database THEN database.title ELSE << >>
    IN  IF Len(title_prop) = 0 THEN "empty"
        ELSE IF "plain_text" \in DOMAIN title_prop[1] THEN "text"
        ELSE "default"

\* a collection a strategy met, with the entry it recorded for it
Encounter(by, database, entry) ==
    [by |-> by, src |-> TitleSource(database), e |-> entry]

\* the entry _search_all_databases records for one hit
SearchEntry(db) ==
    DatabaseInfo(db.id, Str(extract_database_title(db)), PropertiesOf(db), ParentOf(db))

\* no second thread is inside a lookup
NoReader == [at |-> "out"]

RetNone == [op |-> "none", outcome |-> "none", disc |-> "none"]

NotSaved == [valid |-> FALSE, cache |-> EmptyDict]

\* a handler written `except APIResponseError`
scan_catches_api_only(exc) == exc = "APIResponseError"

\* the handler of _get_child_databases: `except Exception` catches every remote error
ScanCatches(exc) == TRUE

\* the handler of _search_all_databases: `except Exception`
SearchCatches(exc) == TRUE

\* has_more = blocks.get("has_more", False)
ListHasMore(page) == page.has_more

\* a loop that goes on only while a cursor came back
search_has_more_cursor(page) == page.has_more /\ Truthy(page.next_cursor)

\* has_more = results.get("has_more", False)
SearchHasMore(page) == page.has_more

\* a constructor that discovers whatever load_cache returned
needs_discovery_always(loaded) == TRUE

\* `if not self.discovery.load_cache():` of NotionMCP.__init__
NeedsDiscovery(loaded) == ~loaded

\* the end of one pass of the for loop over blocks; after the last block the
\* while loop's has_more and start_cursor are taken from the response
AfterBlock(f) ==
    IF Len(f.blocks) <= 1
    THEN [f EXCEPT !.blocks = << >>, !.done = @ + 1,
                   !.has_more = f.next_more, !.start_cursor = f.next_cursor]
    ELSE [f EXCEPT !.blocks = Tail(@), !.done = @ + 1]

Top == stack[Len(stack)]

SetTop(f) == [stack EXCEPT ![Len(stack)] = f]

\* an update in which the keys already present win
databases_update_keep(a, b) == DictUpdate(b, a)

\* databases.update(...) of discover_all_databases: a is what the dict holds, b what is merged in
databases_update(a, b) == DictUpdate(a, b)

\* an assignment that keeps what the old cache held
assign_cache_merge(old, new) == DictUpdate(old, new)

\* self._databases_cache = databases
assign_cache(old, new) == new

-----------------------------------------------------------------------------
(* Initial state: the process before NotionMCP is constructed *)

Init ==
    /\ api_key \in BOOLEAN
    /\ parent_page_id \in { Null, EmptyStr, P0 }
    /\ cache = EmptyDict
    /\ disk \in ExternalFiles
    /\ pc = "new"
    /\ inCtor = FALSE
    /\ databases = EmptyDict
    /\ stack = << >>
    /\ search = NewSearch
    /\ fuel = Fuel
    /\ prev = EmptyDict
    /\ saved = NotSaved
    /\ log = NoLog
    /\ ret = RetNone
    /\ reader = NoReader

-----------------------------------------------------------------------------
(* discover_all_databases, step by step *)

\* lines 40-44: the empty dict, then strategy A when a parent page is configured
BeginDiscover(loaded) ==
    /\ databases' = EmptyDict
    /\ search' = NewSearch
    /\ log' = [NoLog EXCEPT !.runs = 1, !.loaded = loaded]
    /\ ret' = RetNone
    /\ IF Truthy(parent_page_id)
       THEN stack' = << NewFrame(parent_page_id) >> /\ pc' = "scan"
       ELSE stack' = << >> /\ pc' = "search"

\* an exception no handler of the strategies catches leaves discover_all_databases
Propagate(exc) ==
    /\ pc' = IF inCtor THEN "failed" ELSE "idle"
    /\ inCtor' = FALSE
    /\ stack' = << >>
    /\ ret' = [op |-> IF inCtor THEN "ctor" ELSE "refresh", outcome |-> "raised",
               disc |-> "raised", error |-> exc, loaded |-> log.loaded]
    /\ UNCHANGED << cache, disk, databases, search, saved >>

\* a handler that returns an empty dict
scan_raises_empty(f, exc) ==
    /\ stack' = SetTop([f EXCEPT !.raised = TRUE, !.databases = EmptyDict])
    /\ ret' = RetNone
    /\ UNCHANGED << pc, inCtor, cache, disk, databases, search, saved >>

\* a remote call of the activation f raises exc
ScanRaises(f, exc) ==
    IF ScanCatches(exc)
    THEN /\ stack' = SetTop([f EXCEPT !.raised = TRUE])
         /\ ret' = RetNone
         /\ UNCHANGED << pc, inCtor, cache, disk, databases, search, saved >>
    ELSE Propagate(exc)

\* the activation after blocks.children.list answered page
Listed(f, page) ==
    LET g == [f EXCEPT !.calls = @ + 1,
                       !.mores = @ + (IF page.has_more THEN 1 ELSE 0),
                       !.seen = @ + Len(page.results)]
    IN  IF page.results = << >>
        THEN [g EXCEPT !.has_more = ListHasMore(page), !.start_cursor = page.next_cursor]
        ELSE [g EXCEPT !.blocks = page.results, !.next_more = ListHasMore(page),
                       !.next_cursor = page.next_cursor]

\* line 135: self.client.blocks.children.list(**params)
ListChildren ==
    /\ pc = "scan"
    /\ ~Top.raised /\ Top.blocks = << >> /\ Top.has_more
    /\ UNCHANGED << reader, api_key, parent_page_id, prev >>
    /\ \/ /\ \E exc \in RemoteErrors : ScanRaises([Top EXCEPT !.calls = @ + 1], exc)
          /\ log' = [log EXCEPT !.remote = @ + 1, !.raised = @ + 1,
                                 !.failedAt = IF Len(stack) > 1
                                              THEN Append(@, Len(log.seen)) ELSE @]
          /\ fuel' = fuel
       \/ \E page \in Pages(Blocks, fuel) :
            /\ PageCost(page) <= fuel
            /\ log' = [log EXCEPT !.remote = @ + 1]
            /\ fuel' = fuel - PageCost(page)
            /\ stack' = SetTop(Listed(Top, page))
            /\ ret' = RetNone
            /\ UNCHANGED << pc, inCtor, cache, disk, databases, search, saved >>

\* lines 140-150: a child_database block
RetrieveDatabase ==
    /\ pc = "scan"
    /\ ~Top.raised /\ Top.blocks # << >>
    /\ Head(Top.blocks).type = "child_database"
    /\ UNCHANGED << reader, api_key, parent_page_id, prev, fuel >>
    /\ \/ /\ \E exc \in RemoteErrors : ScanRaises(Top, exc)
          /\ log' = [log EXCEPT !.remote = @ + 1, !.raised = @ + 1]
       \/ \E db_info \in RetrieveAnswers :
            LET db_id == Head(Top.blocks).id
                title == extract_database_title(db_info)
                entry == DatabaseInfo(db_id, Str(title), PropertiesOf(db_info), Top.page_id)
            IN  /\ stack' = SetTop(AfterBlock(
                        [Top EXCEPT !.databases = DictSet(@, title, entry)]))
                /\ log' = [log EXCEPT !.remote = @ + 1,
                                       !.seen = Append(@, Encounter("A", db_info, entry))]
                /\ ret' = RetNone
                /\ UNCHANGED << pc, inCtor, cache, disk, databases, search, saved >>

\* lines 152-154: a child_page block starts a nested scan
EnterChildPage ==
    /\ pc = "scan"
    /\ ~Top.raised /\ Top.blocks # << >>
    /\ Head(Top.blocks).type = "child_page"
    /\ stack' = Append(stack, NewFrame(Head(Top.blocks).id))
    /\ ret' = RetNone
    /\ UNCHANGED << reader, api_key, parent_page_id, prev, fuel, log, pc, inCtor, cache, disk,
                    databases, search, saved >>

\* a block of any other type
SkipBlock ==
    /\ pc = "scan"
    /\ ~Top.raised /\ Top.blocks # << >>
    /\ Head(Top.blocks).type \notin { "child_database", "child_page" }
    /\ stack' = SetTop(AfterBlock(Top))
    /\ ret' = RetNone
    /\ UNCHANGED << reader, api_key, parent_page_id, prev, fuel, log, pc, inCtor, cache, disk,
                    databases, search, saved >>

\* a scan that ends only by an exception
scan_done_raised_only(f) == f.raised

\* the while loop of _get_child_databases is left: by an exception, or has_more is false
ScanDone(f) == f.raised \/ (f.blocks = << >> /\ ~f.has_more)

\* a return in which the result of a failed nested scan replaces the caller's dict
return_to_parent_assign ==
    /\ pc = "scan"
    /\ Len(stack) > 1
    /\ ScanDone(Top)
    /\ LET p == stack[Len(stack) - 1]
           q == [p EXCEPT !.databases = IF Top.raised THEN Top.databases
                                        ELSE DictUpdate(@, Top.databases)]
       IN  stack' = Append(SubSeq(stack, 1, Len(stack) - 2), AfterBlock(q))
    /\ ret' = RetNone
    /\ UNCHANGED << reader, api_key, parent_page_id, prev, fuel, log, pc, inCtor, cache, disk,
                    databases, search, saved >>

\* line 163 of a nested scan, then line 155 of its caller
ReturnToParent ==
    /\ pc = "scan"
    /\ Len(stack) > 1
    /\ ScanDone(Top)
    /\ LET p == stack[Len(stack) - 1]
           q == [p EXCEPT !.databases = DictUpdate(@, Top.databases)]
       IN  stack' = Append(SubSeq(stack, 1, Len(stack) - 2), AfterBlock(q))
    /\ ret' = RetNone
    /\ UNCHANGED << reader, api_key, parent_page_id, prev, fuel, log, pc, inCtor, cache, disk,
                    databases, search, saved >>

\* line 163 of the scan of the parent page, then line 44
ReturnToDiscover ==
    /\ pc = "scan"
    /\ Len(stack) = 1
    /\ ScanDone(Top)
    /\ databases' = databases_update(databases, Top.databases)
    /\ log' = [log EXCEPT !.a = Top.databases]
    /\ stack' = << >>
    /\ pc' = "search"
    /\ ret' = RetNone
    /\ UNCHANGED << reader, api_key, parent_page_id, prev, fuel, inCtor, cache, disk, search,
                    saved >>

SearchDone == search.raised \/ ~search.has_more

\* line 180: self.client.search(**params), and lines 182-194 on its answer
SearchCall ==
    /\ pc = "search"
    /\ ~SearchDone
    /\ UNCHANGED << reader, api_key, parent_page_id, prev >>
    /\ \/ /\ \E exc \in RemoteErrors :
               IF SearchCatches(exc)
               THEN /\ search' = [search EXCEPT !.raised = TRUE, !.calls = @ + 1]
                    /\ ret' = RetNone
                    /\ UNCHANGED << pc, inCtor, cache, disk, databases, stack, saved >>
               ELSE Propagate(exc)
          /\ log' = [log EXCEPT !.remote = @ + 1, !.raised = @ + 1]
          /\ fuel' = fuel
       \/ \E page \in Pages(SearchHits, fuel) :
            /\ PageCost(page) <= fuel
            /\ log' = [log EXCEPT !.remote = @ + 1,
                                   !.seen = @ \o [i \in 1..Len(page.results) |->
                                       Encounter("B", page.results[i],
                                                 SearchEntry(page.results[i]))]]
            /\ fuel' = fuel - PageCost(page)
            /\ search' = [search EXCEPT
                            !.databases = RecordHits(@, page.results),
                            !.has_more = SearchHasMore(page),
                            !.start_cursor = page.next_cursor,
                            !.calls = @ + 1,
                            !.mores = @ + (IF page.has_more THEN 1 ELSE 0),
                            !.hits = @ \o page.results]
            /\ ret' = RetNone
            /\ UNCHANGED << pc, inCtor, cache, disk, databases, stack, saved >>

\* a discovery that writes the file first and assigns the cache when the write succeeded
finish_write_first ==
    /\ pc = "search"
    /\ SearchDone
    /\ LET merged == databases_update(databases, search.databases)
           op == IF inCtor THEN "ctor" ELSE "refresh"
       IN  /\ databases' = merged
           /\ log' = [log EXCEPT !.b = search.databases]
           /\ \/ /\ cache' = assign_cache(cache, merged)
                 /\ disk' = JsonFile(CacheData(cache'))
                 /\ saved' = [valid |-> TRUE, cache |-> cache']
                 /\ pc' = "idle"
                 /\ ret' = [op |-> op, outcome |-> "returned", disc |-> "returned",
                            loaded |-> log.loaded, snapshot |-> merged]
              \/ /\ cache' = cache
                 /\ disk' \in { disk, Garbage }
                 /\ saved' = IF disk' = disk THEN saved ELSE NotSaved
                 /\ pc' = IF inCtor THEN "failed" ELSE "idle"
                 /\ ret' = [op |-> op, outcome |-> "raised", disc |-> "raised",
                            error |-> "OSError", loaded |-> log.loaded]
    /\ inCtor' = FALSE
    /\ UNCHANGED << reader, api_key, parent_page_id, prev, fuel, stack, search >>

\* lines 47-54: merge the search results, replace the cache, write the file, return
Finish ==
    /\ pc = "search"
    /\ SearchDone
    /\ LET merged == databases_update(databases, search.databases)
           op == IF inCtor THEN "ctor" ELSE "refresh"
       IN  /\ databases' = merged
           /\ cache' = assign_cache(cache, merged)
           /\ log' = [log EXCEPT !.b = search.databases]
           /\ \/ /\ disk' = JsonFile(CacheData(cache'))
                 /\ saved' = [valid |-> TRUE, cache |-> cache']
                 /\ pc' = "idle"
                 /\ ret' = [op |-> op, outcome |-> "returned", disc |-> "returned",
                            loaded |-> log.loaded, snapshot |-> merged]
              \/ /\ disk' \in { disk, Garbage }
                 /\ saved' = IF disk' = disk THEN saved ELSE NotSaved
                 /\ pc' = IF inCtor THEN "failed" ELSE "idle"
                 /\ ret' = [op |-> op, outcome |-> "raised", disc |-> "raised",
                            error |-> "OSError", loaded |-> log.loaded]
    /\ inCtor' = FALSE
    /\ UNCHANGED << reader, api_key, parent_page_id, prev, fuel, stack, search >>

-----------------------------------------------------------------------------
(* Operations of the facade and of the discovery object *)

\* NotionMCP.__init__ up to the call of discover_all_databases
Construct ==
    /\ pc = "new"
    /\ prev' = cache
    /\ UNCHANGED << reader, api_key, parent_page_id, disk, fuel, saved >>
    /\ IF ~api_key
       THEN /\ pc' = "failed"
            /\ ret' = [op |-> "ctor", outcome |-> "raised", disc |-> "none",
                       error |-> "ValueError", loaded |-> FALSE]
            /\ UNCHANGED << cache, inCtor, databases, stack, search, log >>
       ELSE LET r == load_cache(disk, cache)
            IN  /\ cache' = r.cache
                /\ IF NeedsDiscovery(r.ok)
                   THEN /\ inCtor' = TRUE
                        /\ BeginDiscover(r.ok)
                   ELSE /\ pc' = "idle"
                        /\ ret' = [op |-> "ctor", outcome |-> "returned", disc |-> "none",
                                   loaded |-> r.ok]
                        /\ log' = [NoLog EXCEPT !.loaded = r.ok]
                        /\ UNCHANGED << inCtor, databases, stack, search >>

\* refresh_databases
Refresh ==
    /\ pc = "idle"
    /\ prev' = cache
    /\ BeginDiscover(FALSE)
    /\ UNCHANGED << reader, api_key, parent_page_id, cache, disk, inCtor, fuel, saved >>

IdleLocals ==
    /\ databases' = EmptyDict
    /\ stack' = << >>
    /\ search' = NewSearch
    /\ log' = NoLog
    /\ prev' = cache

\* discovery.load_cache()
Load ==
    /\ pc = "idle"
    /\ IdleLocals
    /\ LET r == load_cache(disk, cache)
       IN  /\ cache' = r.cache
           /\ ret' = [op |-> "load", outcome |-> "returned", disc |-> "none", ok |-> r.ok]
    /\ UNCHANGED << reader, api_key, parent_page_id, disk, pc, inCtor, fuel, saved >>

\* discovery.get_database_by_name(name)
Resolve ==
    /\ pc = "idle"
    /\ IdleLocals
    /\ \E name \in QueryNames :
         ret' = [op |-> "resolve", outcome |-> "returned", disc |-> "none",
                 name |-> name, found |-> get_database_by_name(cache, name)]
    /\ UNCHANGED << reader, api_key, parent_page_id, cache, disk, pc, inCtor, fuel, saved >>

\* list_available_databases
List ==
    /\ pc = "idle"
    /\ IdleLocals
    /\ ret' = [op |-> "list", outcome |-> "returned", disc |-> "none",
               names |-> list_all_databases(cache)]
    /\ UNCHANGED << reader, api_key, parent_page_id, cache, disk, pc, inCtor, fuel, saved >>

\* answers of data_sources.query
QueryAnswers ==
    { [results |-> << >>], [results |-> << EmptyObj >>], [object |-> "list"] }

\* a test that lets every id through
not_found_never(db_id) == FALSE

\* `if not db_id:` of query_database_by_name
NotFound(db_id) == ~Truthy(db_id)

\* the locals of an operation that is not a discovery
NoDiscovery ==
    /\ databases' = EmptyDict
    /\ stack' = << >>
    /\ search' = NewSearch
    /\ prev' = cache

\* query_database_by_name(database_name), with query_database
QueryByName ==
    /\ pc = "idle"
    /\ NoDiscovery
    /\ \E name \in QueryNames :
         LET db_id == get_database_id(cache, name)
         IN  IF NotFound(db_id)
             THEN /\ log' = NoLog
                  /\ ret' = [op |-> "query", outcome |-> "raised", disc |-> "none",
                             name |-> name, error |-> "ValueError"]
             ELSE /\ log' = [NoLog EXCEPT !.remote = 1]
                  /\ \/ \E response \in QueryAnswers :
                          ret' = [op |-> "query", outcome |-> "returned", disc |-> "none",
                                  name |-> name, id |-> db_id,
                                  rows |-> IF "results" \in DOMAIN response
                                           THEN response.results ELSE << >>]
                     \/ \E exc \in RemoteErrors :
                          ret' = [op |-> "query", outcome |-> "raised", disc |-> "none",
                                  name |-> name, error |-> exc]
    /\ UNCHANGED << reader, api_key, parent_page_id, cache, disk, pc, inCtor, fuel, saved >>

\* answers of pages.create
CreateAnswers ==
    { [id |-> Str(<< "r", "1" >>)], [object |-> "error"] }

\* create_entry(database_name, properties_json) of the create_database_entry tool
CreateEntry ==
    /\ pc = "idle"
    /\ NoDiscovery
    /\ \E name \in QueryNames, text \in ValidTexts \cup MalformedTexts :
         LET properties == json_loads(text)
             db_id == get_database_id(cache, name)
             said == [op |-> "create_entry", outcome |-> "returned", disc |-> "none",
                      name |-> name, text |-> text]
         IN  IF ~properties.ok
             THEN /\ log' = NoLog
                  /\ ret' = [said EXCEPT !.outcome = "invalid_json"]
             ELSE IF ~Truthy(db_id)
             THEN /\ log' = NoLog
                  /\ ret' = [said EXCEPT !.outcome = "not_found"]
             ELSE /\ log' = [NoLog EXCEPT !.remote = 1]
                  /\ \/ \E result \in CreateAnswers :
                          ret' = IF "id" \in DOMAIN result
                                 THEN [op |-> "create_entry", outcome |-> "created",
                                       disc |-> "none", name |-> name, text |-> text,
                                       database_id |-> db_id, properties |-> properties.v,
                                       id |-> result.id]
                                 ELSE [op |-> "create_entry", outcome |-> "raised",
                                       disc |-> "none", name |-> name, text |-> text,
                                       database_id |-> db_id, properties |-> properties.v,
                                       error |-> "KeyError"]
                     \/ \E exc \in RemoteErrors :
                          ret' = [op |-> "create_entry", outcome |-> "raised",
                                  disc |-> "none", name |-> name, text |-> text,
                                  database_id |-> db_id, properties |-> properties.v,
                                  error |-> exc]
    /\ UNCHANGED << reader, api_key, parent_page_id, cache, disk, pc, inCtor, fuel, saved >>

\* another process replaces or removes the cache file
ExternalWrite ==
    /\ pc = "idle"
    /\ IdleLocals
    /\ \E file \in ExternalFiles : file # disk /\ disk' = file
    /\ saved' = NotSaved
    /\ ret' = RetNone
    /\ UNCHANGED << reader, api_key, parent_page_id, cache, pc, inCtor, fuel >>

Next ==
    \/ Construct
    \/ Refresh
    \/ ListChildren
    \/ RetrieveDatabase
    \/ EnterChildPage
    \/ SkipBlock
    \/ ReturnToParent
    \/ ReturnToDiscover
    \/ SearchCall
    \/ Finish
    \/ Load
    \/ Resolve
    \/ List
    \/ ExternalWrite

Spec == Init /\ [][Next]_vars

-----------------------------------------------------------------------------
(* The facade in use: the name-based operations on a constructed NotionMCP *)

\* snapshots a constructed facade may hold: loaded from a cache file, or discovered
FacadeCaches ==
    { load_cache(file, EmptyDict).cache : file \in ExternalFiles }
        \cup { RecordHits(EmptyDict, hits) : hits \in SeqsUpTo(SearchHits, Fuel) }

\* the state in which NotionMCP.__init__ returns
InitFacade ==
    /\ api_key = TRUE
    /\ parent_page_id = Null
    /\ cache \in FacadeCaches
    /\ disk = JsonFile(CacheData(cache))
    /\ pc = "idle"
    /\ inCtor = FALSE
    /\ databases = EmptyDict
    /\ stack = << >>
    /\ search = NewSearch
    /\ fuel = 0
    /\ prev = cache
    /\ saved = NotSaved
    /\ log = NoLog
    /\ ret = RetNone
    /\ reader = NoReader

NextFacade ==
    \/ QueryByName
    \/ CreateEntry
    \/ Resolve

SpecFacade == InitFacade /\ [][NextFacade]_vars

-----------------------------------------------------------------------------
(* A second thread: get_database_by_name and list_all_databases called     *)
(* while refresh_databases runs, one read of _databases_cache per step     *)

\* search hits the remote workspace returns in one behaviour of the two threads
RaceFuel == 2

\* names the reader looks up
RaceNames == { tAb, tab }

\* the reader enters get_database_by_name(name)
LookupBegin ==
    /\ reader.at \in { "out", "done" }
    /\ \E name \in RaceNames :
         reader' = [at |-> "in", op |-> "get_database_by_name", name |-> name,
                    reads |-> << >>, result |-> Null]
    /\ UNCHANGED << api_key, parent_page_id, cache, disk, pc, inCtor, databases, stack,
                    search, fuel, prev, saved, log, ret >>

\* line 59: `if name in self._databases_cache`
LookupExact ==
    /\ reader.at = "in"
    /\ reader' = [reader EXCEPT !.reads = Append(@, cache),
                                !.at = IF DictHas(cache, reader.name)
                                       THEN "getitem" ELSE "equal"]
    /\ UNCHANGED << api_key, parent_page_id, cache, disk, pc, inCtor, databases, stack,
                    search, fuel, prev, saved, log, ret >>

\* line 60: `return self._databases_cache[name]`
LookupGetItem ==
    /\ reader.at = "getitem"
    /\ reader' = [reader EXCEPT !.reads = Append(@, cache),
                                !.at = "done",
                                !.result = IF DictHas(cache, reader.name)
                                           THEN DictGet(cache, reader.name)
                                           ELSE Raised("KeyError")]
    /\ UNCHANGED << api_key, parent_page_id, cache, disk, pc, inCtor, databases, stack,
                    search, fuel, prev, saved, log, ret >>

\* lines 63-65: the loop over self._databases_cache.items() for a case-insensitive match
LookupCaseInsensitive ==
    /\ reader.at = "equal"
    /\ LET i == ScanLowerEqual(cache, reader.name, 1)
       IN  reader' = [reader EXCEPT !.reads = Append(@, cache),
                                    !.at = IF i > 0 THEN "done" ELSE "contains",
                                    !.result = IF i > 0 THEN cache[i].v ELSE Null]
    /\ UNCHANGED << api_key, parent_page_id, cache, disk, pc, inCtor, databases, stack,
                    search, fuel, prev, saved, log, ret >>

\* lines 68-72: the loop over self._databases_cache.items() for a substring match, else None
LookupSubstring ==
    /\ reader.at = "contains"
    /\ LET j == ScanLowerContains(cache, reader.name, 1)
       IN  reader' = [reader EXCEPT !.reads = Append(@, cache),
                                    !.at = "done",
                                    !.result = IF j > 0 THEN cache[j].v ELSE Null]
    /\ UNCHANGED << api_key, parent_page_id, cache, disk, pc, inCtor, databases, stack,
                    search, fuel, prev, saved, log, ret >>

\* line 76: list_all_databases, one read
ListNames ==
    /\ reader.at \in { "out", "done" }
    /\ reader' = [at |-> "done", op |-> "list_all_databases", name |-> << >>,
                  reads |-> << cache >>, result |-> list_all_databases(cache)]
    /\ UNCHANGED << api_key, parent_page_id, cache, disk, pc, inCtor, databases, stack,
                    search, fuel, prev, saved, log, ret >>

\* a constructed NotionMCP without parent page, holding a discovered snapshot
InitRace ==
    /\ api_key = TRUE
    /\ parent_page_id = Null
    /\ cache \in { RecordHits(EmptyDict, hits) : hits \in SeqsUpTo(SearchHits, RaceFuel) }
    /\ disk = JsonFile(CacheData(cache))
    /\ pc = "idle"
    /\ inCtor = FALSE
    /\ databases = EmptyDict
    /\ stack = << >>
    /\ search = NewSearch
    /\ fuel = RaceFuel
    /\ prev = cache
    /\ saved = NotSaved
    /\ log = NoLog
    /\ ret = RetNone
    /\ reader = NoReader

NextRace ==
    \/ Refresh
    \/ SearchCall
    \/ Finish
    \/ LookupBegin
    \/ LookupExact
    \/ LookupGetItem
    \/ LookupCaseInsensitive
    \/ LookupSubstring
    \/ ListNames

SpecRace == InitRace /\ [][NextRace]_vars

-----------------------------------------------------------------------------
(* The rooted discovery: NotionMCP constructed with a parent page and no   *)
(* cache file, so that __init__ runs discover_all_databases with both      *)
(* strategies                                                              *)

\* blocks, search hits and further pages the remote workspace returns in one behaviour
ScanFuel == 3

InitScan ==
    /\ api_key = TRUE
    /\ parent_page_id = P0
    /\ cache = EmptyDict
    /\ disk = Missing
    /\ pc = "new"
    /\ inCtor = FALSE
    /\ databases = EmptyDict
    /\ stack = << >>
    /\ search = NewSearch
    /\ fuel = ScanFuel
    /\ prev = EmptyDict
    /\ saved = NotSaved
    /\ log = NoLog
    /\ ret = RetNone
    /\ reader = NoReader

NextScan ==
    \/ Construct
    \/ ListChildren
    \/ RetrieveDatabase
    \/ EnterChildPage
    \/ SkipBlock
    \/ ReturnToParent
    \/ ReturnToDiscover
    \/ SearchCall
    \/ Finish

SpecScan == InitScan /\ [][NextScan]_vars

\* the interpreter runs the call to its end: every remote call answers or raises,
\* and the step that follows is taken
SpecScanLive == SpecScan /\ WF_vars(NextScan)

-----------------------------------------------------------------------------
(* The property codec: the encoders and extract_property_value applied to  *)
(* values and to property objects                                          *)

\* longest option list and longest list in a property object
MaxOptions == 2

Texts == { Str(<< >>), Str(<< "a" >>), Str(tAb), Str(tb) }

Numbers == { Num(0), Num(7), Num(42) }

Day1 == Str(<< "2", "0", "2", "4" >>)
Day2 == Str(<< "2", "0", "2", "5" >>)

OptionLists == { Arr(q) : q \in SeqsUpTo({ Str(<< "a" >>), Str(tb) }, MaxOptions) }

\* what callers hand to the encoders: the encoder, its argument, and end for a date
EncoderInputs ==
    { [kind |-> k, value |-> v, end |-> Null] :
        k \in { "title", "rich_text", "select", "url", "email", "status" }, v \in Texts }
    \cup { [kind |-> "number", value |-> v, end |-> Null] : v \in Numbers }
    \cup { [kind |-> "checkbox", value |-> Bool(b), end |-> Null] : b \in BOOLEAN }
    \cup { [kind |-> "multi_select", value |-> v, end |-> Null] : v \in OptionLists }
    \cup { [kind |-> "date", value |-> v, end |-> e] :
             v \in { Day1, Day2 }, e \in { Null, Str(<< >>), Day2 } }

\* the encoder named kind applied to x
encode(x) ==
    CASE x.kind = "title" -> title_property(x.value)
      [] x.kind = "rich_text" -> rich_text_property(x.value)
      [] x.kind = "number" -> number_property(x.value)
      [] x.kind = "select" -> select_property(x.value)
      [] x.kind = "multi_select" -> multi_select_property(x.value)
      [] x.kind = "date" -> date_property(x.value, x.end)
      [] x.kind = "checkbox" -> checkbox_property(x.value)
      [] x.kind = "url" -> url_property(x.value)
      [] x.kind = "email" -> email_property(x.value)
      [] x.kind = "status" -> status_property(x.value)

\* a property object {"type": kind, kind: payload}
Typed(kind, payload) == Obj(<< << K_type, Str(kind) >>, << kind, payload >> >>)

\* property objects of the types extract_property_value handles, as the remote
\* returns them and malformed
HandledProps ==
    { Typed(K_title, Arr(<< One(K_plain_text, Str(tAb)) >>)),
      Typed(K_title, Arr(<< >>)),
      Typed(K_title, Arr(<< One(K_text, One(K_content, Str(tAb))) >>)),
      Typed(K_title, Str(tAb)),
      Typed(K_rich_text, Arr(<< One(K_plain_text, Str(tb)), One(K_plain_text, Str(tAb)) >>)),
      Typed(K_rich_text, Null),
      Typed(K_number, Num(7)),
      Typed(K_number, Null),
      One(K_type, Str(K_number)),
      Typed(K_select, One(K_name, Str(tb))),
      Typed(K_select, Null),
      Typed(K_select, Str(tb)),
      Typed(K_date, Obj(<< << K_start, Day1 >>, << K_end, Day2 >> >>)),
      Typed(K_date, Null),
      Typed(K_checkbox, Bool(TRUE)),
      One(K_type, Str(K_checkbox)),
      Typed(K_url, Str(tb)),
      Typed(K_email, Null),
      Typed(K_status, One(K_name, Str(tAb))),
      Typed(K_status, Obj(<< >>)),
      Typed(K_formula, Obj(<< << K_type, Str(K_number) >>, << K_number, Num(42) >> >>)),
      Typed(K_formula, Obj(<< << K_type, Str(K_string) >> >>)),
      Typed(K_formula, Null),
      Typed(K_rollup, Obj(<< << K_type, Str(K_number) >>, << K_number, Num(7) >> >>)),
      One(K_type, Str(K_rollup)),
      Typed(K_multi_select, Null) }
    \cup { Typed(K_multi_select, Arr([i \in 1..Len(q.a) |-> One(K_name, q.a[i])])) :
             q \in OptionLists }
    \cup { Typed(K_relation, Arr([i \in 1..Len(q) |-> One(K_id, q[i])])) :
             q \in SeqsUpTo({ D1 }, MaxOptions) }

\* property objects whose type tag is missing, not a string or not a handled type
UnhandledProps ==
    { Obj(<< >>),
      Typed(K_people, Arr(<< >>)),
      Typed(K_people, Arr(<< Obj(<< << K_name, Str(tAb) >>, << K_id, D1 >> >>) >>)),
      Typed(<< "T", "i", "t", "l", "e" >>, Arr(<< One(K_plain_text, Str(tAb)) >>)),
      One(K_type, Str(<< >>)),
      One(K_type, Null),
      Obj(<< << K_type, Num(7) >>, << K_number, Num(7) >> >>),
      Obj(<< << K_type, Arr(<< Str(K_number) >>) >>, << K_checkbox, Bool(FALSE) >> >>),
      Obj(<< << K_type, One(K_name, Str(K_number)) >>, << K_number, Null >> >>) }
    \cup { encode(x) : x \in EncoderInputs }

\* what a step of the codec reports: the value returned, or the exception
Outcome(v) == IF v.t = "raised" THEN "raised" ELSE "returned"

InitCodec ==
    /\ api_key = TRUE
    /\ parent_page_id = Null
    /\ cache = EmptyDict
    /\ disk = Missing
    /\ pc = "codec"
    /\ inCtor = FALSE
    /\ databases = EmptyDict
    /\ stack = << >>
    /\ search = NewSearch
    /\ fuel = 0
    /\ prev = EmptyDict
    /\ saved = NotSaved
    /\ log = NoLog
    /\ ret = RetNone
    /\ reader = NoReader

\* an encoder is called
Encode ==
    /\ pc = "codec"
    /\ \E x \in EncoderInputs :
         ret' = [op |-> "encode", outcome |-> "returned", disc |-> "none",
                 kind |-> x.kind, value |-> x.value, wire |-> encode(x)]
    /\ UNCHANGED << reader, api_key, parent_page_id, cache, disk, pc, inCtor, databases, stack,
                    search, fuel, prev, saved, log >>

\* extract_property_value is called on what the encoder just returned
DecodeEncoded ==
    /\ pc = "codec"
    /\ ret.op = "encode"
    /\ LET v == extract_property_value(ret.wire)
       IN  ret' = [op |-> "roundtrip", outcome |-> Outcome(v), disc |-> "none",
                   kind |-> ret.kind, value |-> ret.value, wire |-> ret.wire,
                   decoded |-> v]
    /\ UNCHANGED << reader, api_key, parent_page_id, cache, disk, pc, inCtor, databases, stack,
                    search, fuel, prev, saved, log >>

\* extract_property_value is called on a property object
Decode ==
    /\ pc = "codec"
    /\ \E prop \in HandledProps \cup UnhandledProps :
         LET v == extract_property_value(prop)
         IN  ret' = [op |-> "decode", outcome |-> Outcome(v), disc |-> "none",
                     wire |-> prop, decoded |-> v]
    /\ UNCHANGED << reader, api_key, parent_page_id, cache, disk, pc, inCtor, databases, stack,
                    search, fuel, prev, saved, log >>

NextCodec ==
    \/ Encode
    \/ DecodeEncoded
    \/ Decode

SpecCodec == InitCodec /\ [][NextCodec]_vars

-----------------------------------------------------------------------------
(* Conversation storage: ConversationStorage over the file conversations.json. *)
(* disk is the file, fuel the clock of datetime.now(), log.hist the messages   *)
(* saved to each session since its last deletion                               *)

\* config.max_conversation_history (50 in config.py), scaled down
max_conversation_history == 2

\* save_conversation calls in one behaviour
MaxSaves == 4

Sessions == { << "s", "1" >>, << "s", "2" >> }

\* a value json.dump has no encoding for (a set)
NotSerializable == [t |-> "set"]

\* the messages callers pass to save_conversation
Messages ==
    { [role |-> "user", content |-> c] :
        c \in { Str(<< "a" >>), Str(tb), NotSerializable } }

\* d with the item of key removed: del d[key]
DictDel(d, key) == SelectSeq(d, LAMBDA x : x.k # key)

\* the last n elements of seq: seq[-n:]
LastN(seq, n) == IF Len(seq) > n THEN SubSeq(seq, Len(seq) - n + 1, Len(seq)) ELSE seq

\* json.dump can encode every message of data
Serializable(data) ==
    \A i \in 1..Len(data) :
        \A j \in 1..Len(data[i].v.messages) : data[i].v.messages[j].content.t # "set"

\* JSONStorage.read: the content of the file, {} when it is not JSON
read(file) == IF file.kind = "json" THEN file.doc ELSE EmptyDict

\* JSONStorage.write: open(..., "w") empties the file and json.dump writes it piece
\* by piece, raising TypeError at a value it cannot encode
write(data) ==
    IF Serializable(data)
    THEN [file |-> JsonFile(data), raised |-> FALSE]
    ELSE [file |-> Garbage, raised |-> TRUE]

\* ConversationStorage.save_conversation at time now
save_conversation(file, session_id, message, now) ==
    LET data == read(file)
        opened == IF DictHas(data, session_id) THEN data
                  ELSE DictSet(data, session_id, [created_at |-> now, messages |-> << >>])
        stamped == [role |-> message.role, content |-> message.content, timestamp |-> now]
        messages == Append(DictGet(opened, session_id).messages, stamped)
        kept == IF Len(messages) > max_conversation_history
                THEN LastN(messages, max_conversation_history)
                ELSE messages
    IN  write(DictSet(opened, session_id,
                      [DictGet(opened, session_id) EXCEPT !.messages = kept]))

\* ConversationStorage.get_conversation
get_conversation(file, session_id) ==
    LET data == read(file)
    IN  IF DictHas(data, session_id) THEN DictGet(data, session_id).messages ELSE << >>

\* ConversationStorage.list_sessions
list_sessions(file) == DictKeys(read(file))

\* ConversationStorage.delete_session
delete_session(file, session_id) ==
    LET data == read(file)
    IN  IF DictHas(data, session_id)
        THEN write(DictDel(data, session_id))
        ELSE [file |-> file, raised |-> FALSE]

\* the contents of a list of stored messages
Contents(messages) == [i \in 1..Len(messages) |-> messages[i].content]

\* ConversationStorage(): the file exists, written as {} when it did not
InitStore ==
    /\ api_key = TRUE
    /\ parent_page_id = Null
    /\ cache = EmptyDict
    /\ disk \in { JsonFile(EmptyDict), Garbage }
    /\ pc = "store"
    /\ inCtor = FALSE
    /\ databases = EmptyDict
    /\ stack = << >>
    /\ search = NewSearch
    /\ fuel = 0
    /\ prev = EmptyDict
    /\ saved = NotSaved
    /\ log = [hist |-> [s \in Sessions |-> << >>]]
    /\ ret = RetNone
    /\ reader = NoReader

SaveConversation ==
    /\ pc = "store"
    /\ fuel < MaxSaves
    /\ \E s \in Sessions, m \in Messages :
         LET w == save_conversation(disk, s, m, fuel + 1)
         IN  /\ disk' = w.file
             /\ log' = IF w.raised THEN log
                       ELSE [log EXCEPT !.hist[s] = Append(@, m.content)]
             /\ ret' = [op |-> "save", outcome |-> IF w.raised THEN "raised" ELSE "returned",
                        disc |-> "none", session |-> s]
    /\ fuel' = fuel + 1
    /\ UNCHANGED << reader, api_key, parent_page_id, cache, pc, inCtor, databases, stack, search,
                    prev, saved >>

GetConversation ==
    /\ pc = "store"
    /\ \E s \in Sessions :
         ret' = [op |-> "get", outcome |-> "returned", disc |-> "none", session |-> s,
                 messages |-> get_conversation(disk, s), sessions |-> list_sessions(disk)]
    /\ UNCHANGED << reader, api_key, parent_page_id, cache, disk, pc, inCtor, databases, stack,
                    search, fuel, prev, saved, log >>

DeleteSession ==
    /\ pc = "store"
    /\ \E s \in Sessions :
         LET w == delete_session(disk, s)
         IN  /\ disk' = w.file
             /\ log' = IF w.raised THEN log ELSE [log EXCEPT !.hist[s] = << >>]
             /\ ret' = [op |-> "delete", outcome |-> IF w.raised THEN "raised" ELSE "returned",
                        disc |-> "none", session |-> s]
    /\ UNCHANGED << reader, api_key, parent_page_id, cache, pc, inCtor, databases, stack, search,
                    fuel, prev, saved >>

NextStore ==
    \/ SaveConversation
    \/ GetConversation
    \/ DeleteSession

SpecStore == InitStore /\ [][NextStore]_vars

-----------------------------------------------------------------------------
(* Vocabulary of the properties *)

\* a run of discover_all_databases has just returned, to __init__ or to refresh_databases
DiscoverReturned == ret.disc = "returned"

Keys(d) == { d[i].k : i \in 1..Len(d) }

\* the smallest element of a non-empty set of indices
First(S) == CHOOSE i \in S : \A j \in S : i <= j

\* the value of member name of a JSON object, Null when it has none
MemberOf(obj, name) ==
    IF \E j \in 1..Len(obj.m) : obj.m[j][1] = name
    THEN obj.m[CHOOSE j \in 1..Len(obj.m) : obj.m[j][1] = name][2]
    ELSE Null

\* the file is a mapping: title -> {id, title, properties, parent_page_id}
WellFormedMapping(file) ==
    /\ file.kind = "json"
    /\ file.doc.t = "obj"
    /\ \A i \in 1..Len(file.doc.m) :
         LET e == file.doc.m[i][2]
         IN  /\ e.t = "obj"
             /\ \A j \in 1..Len(e.m) : e.m[j][1] \in FieldNames
             /\ \A f \in FieldNames : \E j \in 1..Len(e.m) : e.m[j][1] = f

\* the file holds exactly the snapshot d: its titles in order, each with the
\* id, title, schema and parent id of d's entry
FileHolds(file, d) ==
    /\ WellFormedMapping(file)
    /\ Len(file.doc.m) = Len(d)
    /\ \A i \in 1..Len(d) :
         LET e == file.doc.m[i][2]
         IN  /\ file.doc.m[i][1] = d[i].k
             /\ MemberOf(e, K_id) = d[i].v.id
             /\ MemberOf(e, K_title) = d[i].v.title
             /\ MemberOf(e, K_properties) = d[i].v.properties
             /\ MemberOf(e, K_parent_page_id) = d[i].v.parent_page_id

\* the dict a strategy builds from the collections it met, in the order it met them
RECURSIVE Fold(_, _, _)
Fold(by, seen, acc) ==
    IF seen = << >> THEN acc
    ELSE Fold(by, Tail(seen),
              IF Head(seen).by = by
              THEN DictSet(acc, Head(seen).e.title.s, Head(seen).e)
              ELSE acc)

Collected(by) == Fold(by, log.seen, EmptyDict)

\* a remote call of the tree scan raised in this run
ScanFailed == log.raised > (IF search.raised THEN 1 ELSE 0)

\* the elements of seq without repetition, each at its first place
RECURSIVE Distinct(_, _)
Distinct(seq, acc) ==
    IF seq = << >> THEN acc
    ELSE Distinct(Tail(seq),
                  IF \E i \in 1..Len(acc) : acc[i] = Head(seq)
                  THEN acc ELSE Append(acc, Head(seq)))

\* the titles of the collections met in this run, in the order met
TitlesSeen == [i \in 1..Len(log.seen) |-> log.seen[i].e.title.s]

\* no collection met after the i-th has its title
LastOfTitle(i) == \A j \in (i + 1)..Len(log.seen) : TitlesSeen[j] # TitlesSeen[i]

\* entry e is in the snapshot d under its title
Holds(d, e) == DictHas(d, e.title.s) /\ DictGet(d, e.title.s) = e

-----------------------------------------------------------------------------
(* C1: whatever remote calls raise during a run (child-block listing,       *)
(* collection retrieve or workspace search, in either strategy), no remote *)
(* error leaves discover_all_databases: the run goes on to return its      *)
(* snapshot, which is the new cache.  The only error that leaves a run is  *)
(* that of the cache file write.                                           *)
C1_RemoteFailuresNeverPropagate ==
    /\ ret.disc = "raised" => ret.error \notin RemoteErrors
    /\ (ret.disc # "none" /\ ~(ret.disc = "raised" /\ ret.error = "OSError"))
          => (DiscoverReturned /\ ret.snapshot = cache)

\* a run that returned although calls raised in both strategies
C1_Witness ==
    /\ DiscoverReturned
    /\ log.raised >= 2
    /\ search.raised
    /\ Truthy(parent_page_id)

(* C2: get_database_by_name returns the entry under the key equal to name; *)
(* failing that the first entry in iteration order whose key equals name   *)
(* ignoring case; failing that the first whose key contains name ignoring  *)
(* case; failing that None.  An earlier tier wins wherever its match lies. *)
C2_ThreeTierLookup ==
    ret.op = "resolve" =>
        LET n == ret.name
            exact == { i \in 1..Len(cache) : cache[i].k = n }
            nocase == { i \in 1..Len(cache) : Lower(cache[i].k) = Lower(n) }
            partial == { i \in 1..Len(cache) : Contains(Lower(n), Lower(cache[i].k)) }
        IN  IF exact # {} THEN ret.found = cache[First(exact)].v
            ELSE IF nocase # {} THEN ret.found = cache[First(nocase)].v
            ELSE IF partial # {} THEN ret.found = cache[First(partial)].v
            ELSE ret.found.t = "null"

\* the exact key is found behind an earlier key that matches ignoring case
C2_Witness ==
    /\ ret.op = "resolve"
    /\ \E i, j \in 1..Len(cache) :
         /\ i < j
         /\ cache[j].k = ret.name
         /\ cache[i].k # ret.name
         /\ Lower(cache[i].k) = Lower(ret.name)
    /\ ret.found.t = "DatabaseInfo"

(* C3: when discover_all_databases returns, the cache holds exactly the    *)
(* entries its two strategies produced in this run: every key of either    *)
(* result is present, every entry comes from one of them, and an entry of  *)
(* the previous cache is present only if this run found its title again.   *)
C3_SnapshotReplacedWholesale ==
    DiscoverReturned =>
        /\ Keys(cache) = Keys(log.a) \cup Keys(log.b)
        /\ \A i \in 1..Len(cache) :
             \/ DictHas(log.b, cache[i].k) /\ cache[i].v = DictGet(log.b, cache[i].k)
             \/ DictHas(log.a, cache[i].k) /\ cache[i].v = DictGet(log.a, cache[i].k)
        /\ \A i \in 1..Len(prev) :
             DictHas(cache, prev[i].k) => prev[i].k \in Keys(log.a) \cup Keys(log.b)

\* a run that found something while the previous cache held a title it did not find
C3_Witness ==
    /\ DiscoverReturned
    /\ cache # EmptyDict
    /\ \E i \in 1..Len(prev) : ~DictHas(cache, prev[i].k)

(* C4: when both strategies yield an entry with the same title in one run, *)
(* the merged snapshot maps the title to the entry of the global search.   *)
C4_SearchEntryOverwrites ==
    DiscoverReturned =>
        \A key \in Keys(log.a) \cap Keys(log.b) :
            DictGet(cache, key) = DictGet(log.b, key)

\* both strategies found the same title, under different ids
C4_Witness ==
    /\ DiscoverReturned
    /\ \E key \in Keys(log.a) \cap Keys(log.b) :
         DictGet(log.a, key).id # DictGet(log.b, key).id

(* C5: whenever discover_all_databases returns, the cache file holds       *)
(* exactly the snapshot returned: the same titles, each with the id,       *)
(* title, schema and parent id of the in-memory entry.                     *)
C5_FileMirrorsReturnedSnapshot ==
    DiscoverReturned => (FileHolds(disk, ret.snapshot) /\ ret.snapshot = cache)

\* a returned snapshot of two entries, one of them without a parent page
C5_Witness ==
    /\ DiscoverReturned
    /\ Len(cache) = 2
    /\ \E i \in 1..Len(cache) : cache[i].v.parent_page_id = EmptyStr
    /\ prev # EmptyDict

(* C6: load_cache called while the file is what _save_cache last wrote     *)
(* returns true and leaves the cache equal to the snapshot saved: the same *)
(* titles in the same order, each with the same id, schema and parent id.  *)
C6_SaveLoadRoundTrip ==
    (ret.op = "load" /\ saved.valid) =>
        /\ ret.ok
        /\ DictKeys(cache) = DictKeys(saved.cache)
        /\ cache = saved.cache

\* a load that brought back a saved snapshot of two entries over a different cache
C6_Witness ==
    /\ ret.op = "load"
    /\ saved.valid
    /\ ret.ok
    /\ Len(cache) = 2
    /\ prev # cache

(* C7: load_cache never raises; when the file is missing or is not a       *)
(* mapping title -> {id, title, properties, parent_page_id} it returns     *)
(* false and leaves the cache exactly as it was before the call.           *)
C7_FailedLoadLeavesCache ==
    ret.op = "load" =>
        /\ ret.outcome = "returned"
        /\ (disk.kind = "missing" \/ ~WellFormedMapping(disk)) => (~ret.ok /\ cache = prev)

\* a failed load of a file whose first entry is well formed, over a non-empty cache
C7_Witness ==
    /\ ret.op = "load"
    /\ ~ret.ok
    /\ disk = PartialFile
    /\ cache # EmptyDict

(* C8: NotionMCP.__init__ calls load_cache first and runs                  *)
(* discover_all_databases exactly when that load failed.  When the load    *)
(* succeeded (an empty or stale mapping included) construction makes no    *)
(* remote call and the cache is the mapping loaded; when it failed, one    *)
(* run of discover_all_databases takes place before construction returns.  *)
C8_ConstructorLoadsOrDiscovers ==
    /\ (ret.op = "ctor" /\ ret.outcome = "returned" /\ ret.loaded) =>
          (log.runs = 0 /\ log.remote = 0 /\ FileHolds(disk, cache))
    /\ (ret.op = "ctor" /\ ret.outcome = "returned" /\ ~ret.loaded) =>
          (log.runs = 1 /\ DiscoverReturned)
    /\ inCtor =>
          (log.runs = 1 /\ ~log.loaded /\ (disk.kind = "missing" \/ ~WellFormedMapping(disk)))

\* construction over a stale cache file: no discovery, the stale mapping is the cache
C8_Witness ==
    /\ ret.op = "ctor"
    /\ ret.outcome = "returned"
    /\ ret.loaded
    /\ disk = StaleFile
    /\ Len(cache) = 3

(* C9: given an API key, NotionMCP construction completes without raising, *)
(* whatever the cache load returned and whatever failed during the initial *)
(* discovery.                                                              *)
C9_ConstructionAlwaysCompletes ==
    api_key => ~(ret.op = "ctor" /\ ret.outcome = "raised")

(* C10: a strategy whose client answers has_more=true on N consecutive     *)
(* pages and then has_more=false makes exactly N+1 list calls, handles     *)
(* every item of the N+1 pages, and stops: at each while test the calls    *)
(* made equal the has_more=true answers received, plus one once the loop   *)
(* has ended.                                                              *)
C10_PaginationCallCount ==
    /\ ~search.raised =>
          search.calls = search.mores + (IF search.has_more THEN 0 ELSE 1)
    /\ (~search.raised /\ ~search.has_more) =>
          \A i \in 1..Len(search.hits) :
              LET title == extract_database_title(search.hits[i])
                  same == { j \in 1..Len(search.hits) :
                              extract_database_title(search.hits[j]) = title }
                  last == CHOOSE j \in same : \A l \in same : l <= j
              IN  /\ DictHas(search.databases, title)
                  /\ DictGet(search.databases, title).id = search.hits[last].id
    /\ \A k \in 1..Len(stack) :
          LET f == stack[k]
              more == IF f.blocks = << >> THEN f.has_more ELSE f.next_more
          IN  ~f.raised =>
                 /\ f.calls = f.mores + (IF more THEN 0 ELSE 1)
                 /\ ScanDone(f) => f.done = f.seen

\* a search that ended after a has_more=true page with a hit and a last page
C10_Witness ==
    /\ pc = "search"
    /\ SearchDone
    /\ ~search.raised
    /\ search.calls >= 2
    /\ search.mores = search.calls - 1
    /\ Len(search.hits) >= 1

(* C11: both strategies repeat their list call only while a continuation   *)
(* cursor is returned: a response without a cursor ends the pagination, so *)
(* whenever a loop is about to make a follow-up call, it holds a cursor    *)
(* taken from the previous response.                                       *)
C11_FollowUpNeedsCursor ==
    /\ (pc = "search" /\ ~search.raised /\ search.calls > 0 /\ search.has_more)
          => Truthy(search.start_cursor)
    /\ \A k \in 1..Len(stack) :
          LET f == stack[k]
          IN  (~f.raised /\ f.calls > 0 /\ f.blocks = << >> /\ f.has_more)
                 => Truthy(f.start_cursor)

(* C12 as stated: a strategy that hit a remote failure contributes nothing *)
(* to the merged snapshot: no entry it collected in this run is in the     *)
(* snapshot, unless the other strategy produced that very entry.           *)
C12_ErroredStrategyYieldsNothing ==
    DiscoverReturned =>
        \A i \in 1..Len(log.seen) :
            LET x == log.seen[i]
                failed == IF x.by = "A" THEN ScanFailed ELSE search.raised
                other == IF x.by = "A" THEN log.b ELSE log.a
            IN  (failed /\ ~Holds(other, x.e)) => ~Holds(cache, x.e)

(* C12 as amended: a strategy that hits a remote failure yields the        *)
(* entries it collected before the failure: its result is the dict of the  *)
(* collections it met, in the order met, a later same-titled one replacing *)
(* an earlier; these entries are merged into the snapshot like those of a  *)
(* strategy that did not fail (the search's over the tree scan's), and the *)
(* other strategy's entries are unaffected.                                *)
C12_ErroredStrategyKeepsPartial ==
    (DiscoverReturned /\ log.raised > 0) =>
        /\ log.a = Collected("A")
        /\ log.b = Collected("B")
        /\ \A i \in 1..Len(log.b) : Holds(cache, log.b[i].v)
        /\ \A i \in 1..Len(log.a) :
              ~DictHas(log.b, log.a[i].k) => Holds(cache, log.a[i].v)

\* the search failed on its second call, and the entry of its first page is in
\* the snapshot returned
C12_Witness ==
    /\ DiscoverReturned
    /\ search.raised
    /\ search.calls = 2
    /\ \E i \in 1..Len(log.seen) :
         log.seen[i].by = "B" /\ Holds(cache, log.seen[i].e)

\* what one step of a run may do
C13_Step ==
    /\ pc = "search" => pc' # "scan"
    /\ pc \in { "scan", "search" } =>
          /\ log'.remote \in { log.remote, log.remote + 1 }
          /\ log'.remote = log.remote + 1 =>
                \/ pc = "scan" /\ search' = search /\ search.calls = 0
                \/ pc = "search" /\ search'.calls = search.calls + 1

(* C13: discovery is strictly sequential.  While the tree scan runs, the   *)
(* search has not made a call; once the search has begun, no activation of *)
(* the tree scan is left and the run never goes back to scanning, so every *)
(* child-block listing and retrieve call precedes the first search call;   *)
(* each step makes at most one remote call, which has been answered (or    *)
(* has raised) when the step ends; and every run makes at least one search *)
(* call before it ends, with or without a configured parent page.          *)
C13_StrictlySequential ==
    /\ [](pc = "scan" => (stack # << >> /\ search = NewSearch))
    /\ [](pc # "scan" => stack = << >>)
    /\ [](\A i, j \in 1..Len(log.seen) :
            (i < j /\ log.seen[i].by = "B") => log.seen[j].by = "B")
    /\ [](ret.disc # "none" => search.calls >= 1)
    /\ [][C13_Step]_vars

\* a run with a parent page in which the tree scan recorded a database, then the
\* search recorded another
C13_Witness ==
    /\ DiscoverReturned
    /\ Truthy(parent_page_id)
    /\ Len(log.seen) = 2
    /\ log.seen[1].by = "A"
    /\ log.seen[2].by = "B"

(* C14 as stated: for every collection C with a non-empty title T that a   *)
(* run met with no same-titled collection met before it, the lookup of T   *)
(* after the run returns C.                                                *)
C14_FirstOfTitleResolves ==
    DiscoverReturned =>
        \A i \in 1..Len(log.seen) :
            LET x == log.seen[i]
            IN  (/\ x.src = "text"
                 /\ x.e.title.s # << >>
                 /\ \A j \in 1..(i - 1) : log.seen[j].e.title # x.e.title)
                => get_database_by_name(cache, x.e.title.s) = x.e

(* C14 as amended: for every collection C with a non-empty title T that a  *)
(* run met with no same-titled collection met after it (in merge order:    *)
(* the tree scan, then the search), the lookup of T after the run returns  *)
(* C, whatever other titles the snapshot holds.                            *)
C14_LastOfTitleResolves ==
    DiscoverReturned =>
        \A i \in 1..Len(log.seen) :
            LET x == log.seen[i]
            IN  (/\ x.src = "text"
                 /\ x.e.title.s # << >>
                 /\ \A j \in (i + 1)..Len(log.seen) : log.seen[j].e.title # x.e.title)
                => get_database_by_name(cache, x.e.title.s) = x.e

\* the tree scan and then the search met a collection of the same title, under
\* different ids, and the lookup of the title returns the one of the search
C14_Witness ==
    /\ DiscoverReturned
    /\ Len(log.seen) = 2
    /\ log.seen[1].src = "text"
    /\ log.seen[1].e.title = log.seen[2].e.title
    /\ log.seen[1].e.id # log.seen[2].e.id
    /\ get_database_by_name(cache, log.seen[2].e.title.s) = log.seen[2].e

(* C15 as stated: with no parent page configured, after a run              *)
(* list_all_databases returns the distinct titles of the search hits in    *)
(* the order first met, and the lookup of any of them in another case (the *)
(* title in lower case) returns the id of the hit of that title.           *)
C15_ListOrderAndCaseLookup ==
    (DiscoverReturned /\ ~Truthy(parent_page_id)) =>
        /\ list_all_databases(cache) = Distinct(TitlesSeen, << >>)
        /\ \A i \in 1..Len(log.seen) :
              LastOfTitle(i) =>
                 get_database_id(cache, Lower(TitlesSeen[i])) = log.seen[i].e.id

(* C15 as amended: with no parent page configured, after a run             *)
(* list_all_databases returns the distinct titles of the search hits in    *)
(* the order first met, and the lookup of any of them in any case returns  *)
(* the id of the last hit of that title, provided no other title of the    *)
(* snapshot equals it ignoring case.                                       *)
C15_ListOrderAndUniqueCaseLookup ==
    (DiscoverReturned /\ ~Truthy(parent_page_id)) =>
        /\ list_all_databases(cache) = Distinct(TitlesSeen, << >>)
        /\ \A i \in 1..Len(log.seen) : \A n \in QueryNames :
              (/\ LastOfTitle(i)
               /\ Lower(n) = Lower(TitlesSeen[i])
               /\ \A j \in 1..Len(log.seen) :
                     Lower(TitlesSeen[j]) = Lower(TitlesSeen[i]) => TitlesSeen[j] = TitlesSeen[i])
              => get_database_id(cache, n) = log.seen[i].e.id

\* two hits of different titles, the second resolved by its title in lower case
C15_Witness ==
    /\ DiscoverReturned
    /\ ~Truthy(parent_page_id)
    /\ Len(log.seen) = 2
    /\ list_all_databases(cache) = << TitlesSeen[1], TitlesSeen[2] >>
    /\ TitlesSeen[1] # TitlesSeen[2]
    /\ Lower(TitlesSeen[2]) # TitlesSeen[2]
    /\ Lower(TitlesSeen[1]) # Lower(TitlesSeen[2])
    /\ get_database_id(cache, Lower(TitlesSeen[2])) = log.seen[2].e.id

(* C16: query_database_by_name with a name that resolves to no cached      *)
(* collection (no title of the snapshot contains it, ignoring case) raises *)
(* the not-found ValueError, makes no remote call and leaves the snapshot  *)
(* as it was; it never returns rows of some collection or an empty list.   *)
C16_UnresolvedQueryRaises ==
    (/\ ret.op = "query"
     /\ \A i \in 1..Len(cache) : ~Contains(Lower(ret.name), Lower(cache[i].k)))
    => /\ ret.outcome = "raised"
       /\ ret.error = "ValueError"
       /\ log.remote = 0
       /\ cache = prev

\* a query by a name no title of a snapshot of two entries contains
C16_Witness ==
    /\ ret.op = "query"
    /\ ret.outcome = "raised"
    /\ ret.error = "ValueError"
    /\ Len(cache) = 2
    /\ ret.name # << >>

(* C17: create_entry given properties_json that is not valid JSON returns  *)
(* the invalid-JSON error at once: it makes no remote call (no row is      *)
(* created, nothing else is asked of the client) and leaves the snapshot   *)
(* alone, whether or not the database name resolves.                       *)
C17_MalformedJsonNoRemoteCall ==
    (ret.op = "create_entry" /\ ret.text \in MalformedTexts)
    => /\ ret.outcome = "invalid_json"
       /\ log.remote = 0
       /\ cache = prev

\* a malformed payload for a database name that resolves, the error being in the
\* last character of the text
C17_Witness ==
    /\ ret.op = "create_entry"
    /\ ret.outcome = "invalid_json"
    /\ Truthy(get_database_id(cache, ret.name))
    /\ Len(ret.text) > 1
    /\ SubSeq(ret.text, 1, Len(ret.text) - 1) \in ValidTexts

(* C18: for each of the property types text (title, rich text), number,    *)
(* boolean (checkbox), option list (multi-select) and date,                *)
(* extract_property_value applied to what the matching encoder returns for *)
(* a value v returns v.                                                    *)
C18_CodecRoundTrip ==
    (/\ ret.op = "roundtrip"
     /\ ret.kind \in { "title", "rich_text", "number", "checkbox", "multi_select", "date" })
    => ret.decoded = ret.value

\* the collections met in this run whose title array is empty or missing
EmptyTitled == { i \in 1..Len(log.seen) : log.seen[i].src = "empty" }

\* the entries of the snapshot d under the placeholder title
UntitledEntries(d) == { j \in 1..Len(d) : d[j].k = Untitled }

(* C19 as stated: every collection a run met with an empty title array is  *)
(* recorded under the title "Untitled"; after a run that met at least one  *)
(* such collection the snapshot holds exactly one "Untitled" entry, and it *)
(* is the entry of the last collection with an empty title array met, in   *)
(* merge order.                                                            *)
C19_LastEmptyTitledIsUntitled ==
    DiscoverReturned =>
        /\ \A i \in EmptyTitled : TitlesSeen[i] = Untitled
        /\ EmptyTitled # {} =>
             /\ Cardinality(UntitledEntries(cache)) = 1
             /\ \E i \in EmptyTitled :
                   /\ \A j \in EmptyTitled : j <= i
                   /\ DictGet(cache, Untitled) = log.seen[i].e

(* C19 as amended: every collection a run met with an empty title array is *)
(* recorded under the title "Untitled"; after a run that met at least one  *)
(* such collection the snapshot holds exactly one "Untitled" entry, and it *)
(* is the entry of the last collection met, in merge order, whose          *)
(* extracted title is "Untitled": one with an empty title array, or one    *)
(* whose first title element yields "Untitled".                            *)
C19_LastUntitledIsUntitled ==
    DiscoverReturned =>
        /\ \A i \in EmptyTitled : TitlesSeen[i] = Untitled
        /\ EmptyTitled # {} =>
             /\ Cardinality(UntitledEntries(cache)) = 1
             /\ \E i \in 1..Len(log.seen) :
                   /\ TitlesSeen[i] = Untitled
                   /\ LastOfTitle(i)
                   /\ DictGet(cache, Untitled) = log.seen[i].e

\* the tree scan and then the search met a collection with an empty title array,
\* under different ids, and the one "Untitled" entry is that of the search
C19_Witness ==
    /\ DiscoverReturned
    /\ EmptyTitled = { 1, 2 }
    /\ log.seen[1].by = "A"
    /\ log.seen[2].by = "B"
    /\ log.seen[1].e.id # log.seen[2].e.id
    /\ Cardinality(UntitledEntries(cache)) = 1
    /\ DictGet(cache, Untitled) = log.seen[2].e

\* the type tags extract_property_value has a branch for
HandledTypes ==
    { K_title, K_rich_text, K_number, K_select, K_multi_select, K_date, K_checkbox,
      K_url, K_email, K_status, K_formula, K_relation, K_rollup }

\* the property object has no type tag, or one that is no handled type
Unhandled(prop) ==
    ~\E j \in 1..Len(prop.m) :
        /\ prop.m[j][1] = K_type
        /\ prop.m[j][2].t = "str"
        /\ prop.m[j][2].s \in HandledTypes

(* C20: decoding a property object whose type tag is missing, unknown or   *)
(* unhandled never raises and returns a non-empty text that renders the    *)
(* whole object: it opens and closes with the braces of a dict and names,  *)
(* in quotes, every member of the object.                                  *)
C20_UnknownTypeFallback ==
    (ret.op \in { "decode", "roundtrip" } /\ Unhandled(ret.wire))
    => /\ ret.outcome = "returned"
       /\ ret.decoded.t = "str"
       /\ Len(ret.decoded.s) >= 2
       /\ ret.decoded.s[1] = "{"
       /\ ret.decoded.s[Len(ret.decoded.s)] = "}"
       /\ \A j \in 1..Len(ret.wire.m) :
             Contains(<< "'" >> \o ret.wire.m[j][1] \o << "'", ":" >>, ret.decoded.s)

\* a property of the unknown type people, with a nested list, decoded to its text
C20_Witness ==
    /\ ret.op = "decode"
    /\ Unhandled(ret.wire)
    /\ Len(ret.wire.m) = 2
    /\ ret.wire.m[2][1] = K_people
    /\ ret.wire.m[2][2].a # << >>
    /\ Contains(<< "[", "{" >> \o << "'" >> \o K_name \o << "'", ":", " ", "'" >> \o tAb,
                ret.decoded.s)

(* C21: after any sequence of save_conversation and delete_session calls, *)
(* get_conversation(s) returns, in save order, the messages saved to        *)
(* session s since its last deletion, cut to the most recent                *)
(* max_conversation_history; it returns the empty list for a session that   *)
(* was deleted or never saved, and calls on one session leave the messages  *)
(* of every other session as they were.                                     *)
C21_HistoryPerSession ==
    /\ \A s \in Sessions :
          Contents(get_conversation(disk, s)) = LastN(log.hist[s], max_conversation_history)
    /\ ret.op = "get" =>
          Contents(ret.messages) = LastN(log.hist[ret.session], max_conversation_history)

\* what the tree scan met and still holds after a listing of a sub-page failed:
\* each collection met, before or after the failure, is in the result of the scan
\* unless the scan met its title again, and in the snapshot unless the run did
C22_Kept ==
    (DiscoverReturned /\ log.failedAt # << >>) =>
        \A i \in 1..Len(log.seen) :
            log.seen[i].by = "A" =>
                /\ (\A j \in (i + 1)..Len(log.seen) :
                        log.seen[j].by = "A" => TitlesSeen[j] # TitlesSeen[i])
                   => Holds(log.a, log.seen[i].e)
                /\ LastOfTitle(i) => Holds(cache, log.seen[i].e)

\* the step after a nested scan failed: its caller goes on with its next block,
\* not failed itself, holding every title it held
C22_Continue ==
    (pc = "scan" /\ Len(stack) > 1 /\ Top.raised) =>
        LET p == stack[Len(stack) - 1]
        IN  /\ pc' = "scan"
            /\ Len(stack') = Len(stack) - 1
            /\ ~stack'[Len(stack')].raised
            /\ stack'[Len(stack')].done = p.done + 1
            /\ stack'[Len(stack')].page_id = p.page_id
            /\ \A k \in 1..Len(p.databases) :
                  DictHas(stack'[Len(stack')].databases, p.databases[k].k)

(* C22: when listing the children of a sub-page fails, the scan of its     *)
(* parent page goes on with the next block; the collections the scan met   *)
(* in earlier and later blocks and pages and in sibling sub-pages are in   *)
(* the result of strategy A and in the merged snapshot, each under its     *)
(* title unless a collection met later has the same title.                 *)
C22_SubTraversalFailureIsolated == []C22_Kept /\ [][C22_Continue]_vars

\* the scan of the parent page met a collection, then the listing of a sub-page
\* failed, then it met another collection; both are in the snapshot
C22_Witness ==
    /\ DiscoverReturned
    /\ log.failedAt = << 1 >>
    /\ Len(log.seen) >= 2
    /\ log.seen[1].by = "A"
    /\ log.seen[2].by = "A"
    /\ log.seen[1].e.parent_page_id = P0
    /\ log.seen[2].e.parent_page_id = P0
    /\ TitlesSeen[1] # TitlesSeen[2]
    /\ Holds(log.a, log.seen[1].e)
    /\ Holds(log.a, log.seen[2].e)
    /\ Holds(cache, log.seen[1].e)
    /\ Holds(cache, log.seen[2].e)

\* discover_all_databases is running
Discovering == pc \in { "scan", "search" }

\* discover_all_databases has ended: it returned, or the write of the file raised
DiscoverEnded == pc \in { "idle", "failed" }

\* a child_page block is entered whatever the depth of the scan and whatever
\* pages the scan is already in
C23_NoDepthBoundNoVisitedSet ==
    (/\ pc = "scan"
     /\ ~Top.raised
     /\ Top.blocks # << >>
     /\ Head(Top.blocks).type = "child_page")
    => ENABLED EnterChildPage

(* C23: when the remote workspace is finite (the pages below the parent    *)
(* page hold finitely many blocks, and listings and searches answer        *)
(* has_more finitely often), a started discover_all_databases eventually   *)
(* ends; nothing else bounds it: the scan enters every child page,         *)
(* at any depth and also a page it is already in.                          *)
C23_DiscoveryTerminates ==
    /\ Discovering ~> DiscoverEnded
    /\ []C23_NoDepthBoundNoVisitedSet

\* a run that went below the parent page, used up everything the remote workspace had
\* and returned
C23_Witness ==
    /\ DiscoverReturned
    /\ fuel = 0
    /\ log.raised = 0
    /\ log.remote >= ScanFuel + 1
    /\ log.seen # << >>
    /\ log.seen[1].e.parent_page_id = P1

\* what a call of the reader returns when every read of it sees the snapshot c
Undisturbed(c) ==
    IF reader.op = "list_all_databases" THEN list_all_databases(c)
    ELSE get_database_by_name(c, reader.name)

(* C24: a get_database_by_name or list_all_databases interleaved with a    *)
(* running discover_all_databases observes one complete snapshot, the      *)
(* previous one or the newly merged one: what it returns is what the call  *)
(* returns on one of the snapshots the cache held while it ran.            *)
C24_InterleavedReadSeesOneSnapshot ==
    reader.at = "done" =>
        \E i \in 1..Len(reader.reads) : reader.result = Undisturbed(reader.reads[i])

\* every key of the snapshot d is the title of its entry, and no key occurs twice
KeyTitleAgreement(d) ==
    /\ \A i \in 1..Len(d) : d[i].v.title = Str(d[i].k)
    /\ \A i, j \in 1..Len(d) : d[i].k = d[j].k => i = j

\* discover_all_databases has assigned the snapshot: it returned, or the write of
\* the file raised after the assignment
SnapshotAssigned ==
    \/ DiscoverReturned
    \/ (ret.disc = "raised" /\ ret.error = "OSError")

(* C25: in the snapshot discover_all_databases assigns, and in the snapshot *)
(* load_cache builds from a file that _save_cache wrote, every key maps to  *)
(* an entry whose title is the key, and no two keys are equal.              *)
C25_KeyTitleAgreement ==
    /\ SnapshotAssigned => KeyTitleAgreement(cache)
    /\ (ret.op = "load" /\ ret.ok /\ saved.valid) => KeyTitleAgreement(cache)

\* a snapshot of two entries met under different ids, saved by a discovery and
\* loaded back from its file
C25_Witness ==
    /\ ret.op = "load"
    /\ ret.ok
    /\ saved.valid
    /\ Len(cache) = 2
    /\ cache[1].v.id # cache[2].v.id
    /\ cache[1].k # cache[2].k
    /\ KeyTitleAgreement(cache)

\* the step in which _save_cache raises inside discover_all_databases
WriteFailed == pc = "search" /\ SearchDone /\ ret'.disc = "raised"

\* the snapshot the running discover_all_databases has merged
Merged == databases_update(databases, search.databases)

\* C26 as stated, of one step
C26_StaleStep ==
    WriteFailed =>
        /\ ret'.outcome = "raised"
        /\ cache' = Merged
        /\ ~FileHolds(disk', cache')

\* C26 as amended, of one step
C26_UntouchedStep ==
    WriteFailed =>
        /\ ret'.outcome = "raised"
        /\ ret'.error = "OSError"
        /\ cache' = Merged
        /\ disk' \in { disk, Garbage }
        /\ FileHolds(disk', cache') => (disk' = disk /\ FileHolds(disk, Merged))

(* C26 as stated: when the write of the cache file fails in                *)
(* discover_all_databases, the error reaches the caller, the in-memory     *)
(* snapshot is already the new one, and the file does not hold it.         *)
C26_FailedWriteFileNotMirror == [][C26_StaleStep]_vars

(* C26 as amended: when the write of the cache file fails in               *)
(* discover_all_databases, the error reaches the caller and the in-memory  *)
(* snapshot is already the new one; the file is left as it was or as a     *)
(* truncated document, so it holds the new snapshot only when it was left  *)
(* untouched and already held exactly that snapshot.                       *)
C26_FailedWriteFileNotWritten == [][C26_UntouchedStep]_vars

\* a refresh found another snapshot, the write failed, and the file still holds
\* the previous one
C26_Witness ==
    /\ ret.op = "refresh"
    /\ ret.disc = "raised"
    /\ ret.error = "OSError"
    /\ cache # prev
    /\ cache # EmptyDict
    /\ FileHolds(disk, prev)
    /\ ~FileHolds(disk, cache)

====
